---- MODULE Spec2Model ----
(***************************************************************************)
(* ScoutBot execution adapter (src/trader/execution_adapter.py) with the   *)
(* risk model and position sizer it calls, and the broker it talks to.     *)
(*                                                                         *)
(* Units.  Money is in cents (round(x, 2) is rounding to a whole cent).    *)
(* Percentages are in basis points (1 = 0.0001).  Time is in seconds.      *)
(* An optional value is <<>> (None) or <<v>>.                              *)
(***************************************************************************)
EXTENDS Integers, Sequences, FiniteSets, TLC

(* ------------------------------ bounds -------------------------------- *)
\* Seconds the clock advances per Tick.
TickSeconds == 1800
\* The clock stops after this many ticks.
MaxTicks == 3
\* Entry orders the broker holds at once (working, or awaiting reconciliation):
\* in the full loop, and where only entries and fills are followed.
MaxOrders == 1
MaxEntryOrders == 4
\* Signals in one execute_signals batch.
MaxBatch == 2
\* Seconds between two evaluations of a position, and how many of them pass.
PollSeconds == 300
MaxPolls == 3

\* time.time() is never 0: the clock starts one tick after the epoch.
StartTime == TickSeconds
MaxTime == StartTime + MaxTicks * TickSeconds

(* ------------------------ program constants --------------------------- *)
_pending_entry_ttl_seconds == 3600
STOP_LOSS_PCT == 60
TAKE_PROFIT_PCT == 180
crash_stop_loss_pct == 50
crash_take_profit_pct == 150
DAILY_BUDGET == 1000000
MAX_POSITIONS == 5
CRASH_MAX_POSITIONS_EXEC == 3
crash_max_positions == 3
max_position_pct == 0
max_daily_loss_pct == 300
settings_max_risk_pct == 50
PctScale == 10000

Symbols == {"AAA", "BBB", "CCC", "DDD"}
OrderIds == 1..(IF MaxOrders >= MaxEntryOrders THEN MaxOrders ELSE MaxEntryOrders)

None == <<>>
Some(v) == <<v>>
IsNone(o) == o = <<>>
Val(o) == o[1]

Min(a, b) == IF a <= b THEN a ELSE b
Max(a, b) == IF a >= b THEN a ELSE b
Abs(a) == IF a >= 0 THEN a ELSE 0 - a

\* round(n / d, 0) for n >= 0, d > 0: Python rounds an exact half to even.
RoundHalfEven(n, d) ==
    LET q == n \div d
        r == n % d
    IN  IF 2 * r < d THEN q
        ELSE IF 2 * r > d THEN q + 1
        ELSE IF q % 2 = 0 THEN q ELSE q + 1

(* ------------------------------ state --------------------------------- *)
VARIABLES
    \* settings and module globals fixed at import
    execution_halt_cooldown_seconds, dry_run, trading_client, MAX_POSITION_SIZE,
    \* wall clock, time.time()
    now,
    \* execution_adapter module globals
    _halt_new_entries, _halt_reason, _halt_until, _pending_entries,
    \* portfolio_state store
    entry_timestamps,
    \* broker side: positions by symbol, entry orders by id
    positions, orders,
    \* execute_signals loop: signals left in the running batch, its crash_mode
    batchLeft, crash_mode,
    \* what the last call did: its name, whether the halt flag was set when it
    \* began, its ExecutionResult, the broker calls it made, the call that raised,
    \* and the locals it had computed on return
    lastOp, entered_halted, result, calls, failed, locals,
    \* the records the last call wrote through log_trade
    trade_log,
    \* history: the last failed entry whose cooldown is still running
    entry_failure,
    \* risk_model module global: failed exit evaluations by symbol
    _exit_error_counts,
    \* the last should_exit call (position, answer), and for each symbol how its
    \* previous evaluation ended and when
    exit_eval, exit_history,
    \* microcap_cycle: where the running cycle is and what it has done
    cycle,
    \* the last call of a function without state: its arguments and its answer
    pure,
    \* a core.cache.TTLCache object
    cache

vars == <<execution_halt_cooldown_seconds, dry_run, trading_client, MAX_POSITION_SIZE, now,
          _halt_new_entries, _halt_reason, _halt_until, _pending_entries,
          entry_timestamps, positions, orders, batchLeft, crash_mode,
          lastOp, entered_halted, result, calls, failed, locals, trade_log, entry_failure,
          _exit_error_counts, exit_eval, exit_history, cycle, pure, cache>>

config == <<execution_halt_cooldown_seconds, dry_run, trading_client, MAX_POSITION_SIZE>>
haltVars == <<_halt_new_entries, _halt_reason, _halt_until>>
report == <<lastOp, entered_halted, result, calls, failed, locals, trade_log>>
exitVars == <<_exit_error_counts, exit_eval, exit_history>>
loopVars == <<exitVars, cycle, pure, cache>>

(* --------------------------- halt state ------------------------------- *)
HaltState == [halted |-> _halt_new_entries, reason |-> _halt_reason, until |-> _halt_until]
NotHalted == [halted |-> FALSE, reason |-> "", until |-> 0]

\* Mutant: a failure during a halt leaves the halt as the first failure set it.
_set_halt_first_only(reason) ==
    LET cooldown == Max(execution_halt_cooldown_seconds, 0)
    IN  IF _halt_new_entries THEN HaltState
        ELSE [halted |-> TRUE, reason |-> reason,
              until |-> IF cooldown # 0 THEN now + cooldown ELSE 0]

\* Mutant: every failure is stored under one generic reason.
_set_halt_generic(reason) ==
    LET cooldown == Max(execution_halt_cooldown_seconds, 0)
    IN  [halted |-> TRUE, reason |-> "alpaca_api_error",
         until |-> IF cooldown # 0 THEN now + cooldown ELSE 0]

_set_halt(reason) ==
    LET cooldown == Max(execution_halt_cooldown_seconds, 0)
    IN  [halted |-> TRUE, reason |-> reason,
         until |-> IF cooldown # 0 THEN now + cooldown ELSE 0]

\* Mutant: the halt is dropped whether or not its deadline has passed.
_reset_halt_always(h) == NotHalted

\* Mutant: the deadline itself does not yet count as passed.
_reset_halt_if_late(h) ==
    IF ~h.halted THEN h
    ELSE IF h.until # 0 /\ now > h.until THEN NotHalted
    ELSE h

_reset_halt_if_ready(h) ==
    IF ~h.halted THEN h
    ELSE IF h.until # 0 /\ now >= h.until THEN NotHalted
    ELSE h

(* ---------------------- trader/risk_model.py -------------------------- *)
stop_loss_price(entry_price, crash) ==
    LET pct == IF crash THEN crash_stop_loss_pct ELSE STOP_LOSS_PCT
    IN  RoundHalfEven(entry_price * (PctScale - pct), PctScale)

take_profit_price(entry_price, crash) ==
    LET pct == IF crash THEN crash_take_profit_pct ELSE TAKE_PROFIT_PCT
    IN  RoundHalfEven(entry_price * (PctScale + pct), PctScale)

\* A money amount that is not a whole cent is the fraction n / d.
Frac(n, d) == [n |-> n, d |-> d]
FracLeq(a, b) == a.n * b.d <= b.n * a.d
FracMin(a, b) == IF FracLeq(a, b) THEN a ELSE b
RECURSIVE GCD(_, _)
GCD(a, b) == IF b = 0 THEN a ELSE GCD(b, a % b)

\* MAX_POSITION_SIZE is read from the environment and defaults to
\* DAILY_BUDGET / 3.
DefaultMaxPositionSize == Frac(DAILY_BUDGET, 3)

\* Mutant: the percent-of-equity cap is ignored.
MaxPositionNotional_fixed_only(equity, crash, position_size, pct_cap) ==
    IF crash THEN Frac(DAILY_BUDGET * 8, 10 * crash_max_positions) ELSE position_size

\* _max_position_notional for a given MAX_POSITION_SIZE and a given
\* settings.max_position_pct (in basis points).
MaxPositionNotional(equity, crash, position_size, pct_cap) ==
    LET max_positions == IF crash THEN crash_max_positions ELSE MAX_POSITIONS
        max_pos_size == IF crash THEN Frac(DAILY_BUDGET * 8, 10 * max_positions)
                        ELSE position_size
    IN  IF IsNone(equity) \/ (~IsNone(equity) /\ Val(equity) <= 0) THEN max_pos_size
        ELSE IF pct_cap <= 0 THEN max_pos_size
        ELSE LET g == GCD(Val(equity), PctScale)
                 equity_cap == Frac((Val(equity) \div g) * pct_cap, PctScale \div g)
             IN  IF max_pos_size.n # 0 THEN FracMin(max_pos_size, equity_cap)
                 ELSE equity_cap

_max_position_notional(equity, crash) ==
    MaxPositionNotional(equity, crash, MAX_POSITION_SIZE, max_position_pct)

max_position_notional(equity, crash) == _max_position_notional(equity, crash)

\* Mutant: a return equal to the limit is not a breach.
daily_loss_exceeded_below_only(equity_return_pct) ==
    IF IsNone(equity_return_pct) THEN FALSE
    ELSE IF max_daily_loss_pct <= 0 THEN FALSE
    ELSE Val(equity_return_pct) < 0 - max_daily_loss_pct

\* equity_return_pct is optional, in basis points.
daily_loss_exceeded(equity_return_pct) ==
    IF IsNone(equity_return_pct) THEN FALSE
    ELSE IF max_daily_loss_pct <= 0 THEN FALSE
    ELSE Val(equity_return_pct) <= 0 - max_daily_loss_pct

can_open_position(current_positions, allocation_amount, crash, equity, equity_return_pct) ==
    IF daily_loss_exceeded(equity_return_pct) THEN FALSE
    ELSE LET max_positions == IF crash THEN crash_max_positions ELSE MAX_POSITIONS
             max_pos_size == _max_position_notional(equity, crash)
         IN  /\ current_positions < max_positions
             /\ FracLeq(Frac(allocation_amount, 1), max_pos_size)

\* ---- exits ----
_EXIT_ERROR_LIMIT == 2
_EXIT_ERROR_RESET_SECONDS == 600
crash_max_hold_minutes == 60
default_max_hold_minutes == 90
\* settings.atr_multiplier, in tenths; the trail percents in basis points.
atr_multiplier == 25
base_trail_pct(crash) == IF crash THEN 50 ELSE 70
max_trail_pct(crash) == IF crash THEN 500 ELSE 800

\* _exit_error_counts.get(symbol, (0, 0.0)): a symbol without an entry reads
\* as this one.
NoErrors == [count |-> 0, last_ts |-> 0]

\* Returns the answer and the counts it leaves.
_should_force_exit_on_error(symbol, counts) ==
    IF symbol = "" THEN [value |-> TRUE, counts |-> counts]
    ELSE LET was == counts[symbol]
             count == (IF now - was.last_ts > _EXIT_ERROR_RESET_SECONDS THEN 0
                       ELSE was.count) + 1
         IN  IF count >= _EXIT_ERROR_LIMIT
             THEN [value |-> TRUE, counts |-> [counts EXCEPT ![symbol] = NoErrors]]
             ELSE [value |-> FALSE,
                   counts |-> [counts EXCEPT ![symbol] = [count |-> count, last_ts |-> now]]]

\* Mutant: a position's own percent is ignored.
_coerce_pct_table_only(value, fallback) == fallback

\* value is optional, in basis points.
_coerce_pct(value, fallback) ==
    IF IsNone(value) THEN fallback
    ELSE IF Val(value) <= 0 \/ Val(value) >= PctScale THEN fallback
    ELSE Val(value)

\* value is optional, in whole minutes.
_coerce_minutes(value, fallback) ==
    IF IsNone(value) THEN fallback
    ELSE IF Val(value) <= 0 THEN fallback
    ELSE Val(value)

\* price / entry - 1 >= pct and <= -pct, pct in basis points, for entry # 0.
GainAtLeast(price, entry, pct) ==
    IF entry > 0 THEN price * PctScale >= entry * (PctScale + pct)
    ELSE price * PctScale <= entry * (PctScale + pct)
GainAtMost(price, entry, pct) ==
    IF entry > 0 THEN price * PctScale <= entry * (PctScale - pct)
    ELSE price * PctScale >= entry * (PctScale - pct)

\* The bars since the entry as should_exit uses them: their highest high
\* (none if no bar is left), the last ATR(14) in cents, and whether
\* passes_exit_filter triggers.  status is "error" when fetching or converting
\* them raises, "empty" when the frame is empty.
Bars(status, high, atr, filter) ==
    [status |-> status, high |-> high, atr |-> atr, filter |-> filter]

\* The trailing stop times PctScale, none if there is none.
_trailing_stop_from_bars(frame, entry_price, crash) ==
    IF frame.status # "ok" \/ IsNone(frame.high) THEN None
    ELSE IF Val(frame.high) <= entry_price THEN None
    ELSE IF frame.atr <= 0 THEN None
    ELSE LET trail_distance == frame.atr * atr_multiplier * 6 * (PctScale \div 100)
             min_distance == entry_price * base_trail_pct(crash)
             max_distance == entry_price * max_trail_pct(crash)
             distance == Min(Max(trail_distance, min_distance), max_distance)
         IN  Some(Val(frame.high) * PctScale - distance)

\* position.get(key, 0.0): the keys in position.absent are not in the dict.
PositionGet(position, key) ==
    IF key \in position.absent THEN Some(0) ELSE position[key]

\* What a call of should_exit leaves: whether it raised, its answer, the error
\* counts, and the statement it returned from.
ExitAnswer(raised, value, counts, via) ==
    [raised |-> raised, value |-> value, counts |-> counts, via |-> via]

\* should_exit from the time-stop on (risk_model.py:137-171).
ExitAfterTargets(position, crash, frame, counts, price, entry) ==
    LET max_minutes == _coerce_minutes(position.max_hold_minutes,
                           IF crash THEN crash_max_hold_minutes ELSE default_max_hold_minutes)
        trailing_stop == _trailing_stop_from_bars(frame, entry, crash)
    IN  IF IsNone(position.entry_timestamp) THEN ExitAnswer(FALSE, FALSE, counts, "unknown_age")
        ELSE IF now - Val(position.entry_timestamp) >= 60 * max_minutes
        THEN ExitAnswer(FALSE, TRUE, counts, "time_stop")
        ELSE IF position.data_source = "daily" THEN ExitAnswer(FALSE, FALSE, counts, "daily")
        ELSE IF position.symbol = "" THEN ExitAnswer(FALSE, FALSE, counts, "no_symbol")
        ELSE IF frame.status = "error"
        THEN LET forced == _should_force_exit_on_error(position.symbol, counts)
             IN  ExitAnswer(FALSE, forced.value, forced.counts, "data_error")
        ELSE IF frame.status = "empty" THEN ExitAnswer(FALSE, FALSE, counts, "no_bars")
        ELSE IF ~IsNone(trailing_stop) /\ price * PctScale <= Val(trailing_stop)
        THEN ExitAnswer(FALSE, TRUE, counts, "trailing_stop")
        ELSE ExitAnswer(FALSE, frame.filter, counts, "exit_filter")

\* float(None) raises TypeError out of should_exit.
should_exit(position, crash, frame, counts) ==
    LET price_raw == PositionGet(position, "current_price")
        entry_raw == PositionGet(position, "entry_price")
    IN  IF IsNone(price_raw) \/ IsNone(entry_raw)
        THEN ExitAnswer(TRUE, FALSE, counts, "raise")
        ELSE
        LET price == Val(price_raw)
            entry == Val(entry_raw)
            tp_pct == _coerce_pct(position.take_profit_pct,
                          IF crash THEN crash_take_profit_pct ELSE TAKE_PROFIT_PCT)
            sl_pct == _coerce_pct(position.stop_loss_pct,
                          IF crash THEN crash_stop_loss_pct ELSE STOP_LOSS_PCT)
        IN  IF price = 0 \/ entry = 0 THEN ExitAnswer(FALSE, TRUE, counts, "invalid_price")
            ELSE IF GainAtLeast(price, entry, tp_pct) \/ GainAtMost(price, entry, sl_pct)
            THEN ExitAnswer(FALSE, TRUE, counts, "target")
            ELSE ExitAfterTargets(position, crash, frame, counts, price, entry)

(* --------------------- trader/position_sizer.py ----------------------- *)
risk_per_share(entry_price, stop_price) == Abs(entry_price - stop_price)

\* max_risk_pct and max_notional are fractions; equity is optional.
size_position(entry_price, stop_price, equity, max_risk_pct, max_notional, min_qty) ==
    LET risk == risk_per_share(entry_price, stop_price)
    IN  IF risk <= 0 THEN 0
        ELSE IF IsNone(equity) \/ (~IsNone(equity) /\ Val(equity) <= 0) THEN 0
        ELSE IF max_risk_pct.n <= 0 THEN 0
        ELSE LET max_by_risk == (Val(equity) * max_risk_pct.n) \div (max_risk_pct.d * risk)
                 max_by_notional ==
                     IF entry_price <= 0 \/ max_notional.n <= 0 THEN max_by_risk
                     ELSE max_notional.n \div (max_notional.d * entry_price)
                 qty == Min(max_by_risk, max_by_notional)
             IN  IF qty < min_qty THEN 0 ELSE qty

\* A Python float: finite (v in the unit of the parameter), inf, -inf or nan.
Finite(v) == [kind |-> "finite", v |-> v]
Inf == [kind |-> "inf"]
NegInf == [kind |-> "-inf"]
NaN == [kind |-> "nan"]

\* What a call of a function leaves: the exception it raised ("" if none), or
\* its value.
Returned(value) == [raised |-> "", value |-> value]
Raised(exception) == [raised |-> exception, value |-> 0]

\* abs(entry - stop) on floats: inf - inf is nan.
risk_per_share_float(entry_price, stop_price) ==
    IF entry_price.kind = "nan" \/ stop_price.kind = "nan" THEN NaN
    ELSE IF entry_price.kind = "finite" /\ stop_price.kind = "finite"
    THEN Finite(risk_per_share(entry_price.v, stop_price.v))
    ELSE IF entry_price.kind = stop_price.kind THEN NaN
    ELSE Inf

\* size_position on floats: math.floor raises OverflowError on inf and
\* ValueError on nan.
size_position_float(entry_price, stop_price, equity, max_risk_pct, max_notional, min_qty) ==
    LET risk == risk_per_share_float(entry_price, stop_price)
    IN  IF risk.kind # "finite" \/ risk.v <= 0 THEN Returned(0)
        ELSE IF IsNone(equity) THEN Returned(0)
        ELSE IF Val(equity).kind # "finite" \/ Val(equity).v <= 0 THEN Returned(0)
        ELSE IF max_risk_pct.kind # "finite" \/ max_risk_pct.v.n <= 0 THEN Returned(0)
        ELSE IF \/ entry_price.v <= 0
                \/ max_notional.kind = "-inf"
                \/ (max_notional.kind = "finite" /\ max_notional.v.n <= 0)
        THEN Returned(size_position(entry_price.v, stop_price.v, Some(Val(equity).v),
                                    max_risk_pct.v, Frac(0, 1), min_qty))
        ELSE IF max_notional.kind = "inf" THEN Raised("OverflowError")
        ELSE IF max_notional.kind = "nan" THEN Raised("ValueError")
        ELSE Returned(size_position(entry_price.v, stop_price.v, Some(Val(equity).v),
                                    max_risk_pct.v, max_notional.v, min_qty))

(* ------------------- trader/execution_adapter.py ---------------------- *)
\* A real TradingClient always has get_order_by_id.
_can_fetch_orders == trading_client # "none"

\* The entry metadata execute_signal notes for an order and the store keeps
\* for its symbol: percents in basis points, minutes, the data source;
\* NoMetadata is the empty dict.
Metadata(stop_loss_pct, take_profit_pct, max_hold_minutes, data_source) ==
    [stop_loss_pct |-> stop_loss_pct, take_profit_pct |-> take_profit_pct,
     max_hold_minutes |-> max_hold_minutes, data_source |-> data_source]
NoMetadata == Metadata(None, None, None, "")

\* execution_adapter.py:346-356: what execute_signal notes of the bracket it
\* resolved and of the signal, the percents kept to a basis point.
EntryMetadata(signal, entry_price, stop_loss, take_profit) ==
    LET calc_stop_pct == ((entry_price - stop_loss) * PctScale) \div entry_price
        calc_tp_pct == ((take_profit - entry_price) * PctScale) \div entry_price
    IN  Metadata(IF entry_price > 0 /\ entry_price - stop_loss > 0 THEN Some(calc_stop_pct)
                 ELSE None,
                 IF entry_price > 0 /\ take_profit - entry_price > 0 THEN Some(calc_tp_pct)
                 ELSE None,
                 signal.max_hold_minutes, signal.data_source)

NoLocals ==
    [entry_price |-> None, stop_loss |-> None, take_profit |-> None,
     equity |-> None, buying_power |-> None, max_notional |-> None,
     max_risk_pct |-> None, requested_qty |-> None, sized_qty |-> None,
     qty |-> None, entry_metadata |-> NoMetadata]

ExecutionResult(symbol, action, submitted, skipped, order_id, reason) ==
    [symbol |-> symbol, action |-> action, submitted |-> submitted,
     skipped |-> skipped, order_id |-> order_id, reason |-> reason]

\* What a call leaves behind: its result, the halt state, the broker calls made,
\* the call that raised ("none" if none did), the locals, and the broker's answer
\* to submit_order or close_position ("none" when the call was not made).
Outcome(res, h, cs, f, loc, resp) ==
    [result |-> res, halt |-> h, calls |-> cs, failed |-> f, locals |-> loc,
     response |-> resp, logged |-> {}]

\* An event handed to log_trade: its symbol, action, status and reason ("None"
\* where the event has no such key or its value is None).
TradeRecord(symbol, action, status, reason) ==
    [symbol |-> symbol, action |-> action, status |-> status, reason |-> reason]

\* log_trade(event) during the call that leaves o.
log_trade(o, event) == [o EXCEPT !.logged = @ \cup {event}]

\* Mutant: a skip halts new entries with its reason.
_log_skip_halting(symbol, action, reason, h, cs, f, loc) ==
    log_trade(Outcome(ExecutionResult(symbol, action, FALSE, TRUE, None, reason),
                      _set_halt(reason), cs, f, loc, "none"),
              TradeRecord(symbol, action, "skipped", reason))

_log_skip(symbol, action, reason, h, cs, f, loc) ==
    log_trade(Outcome(ExecutionResult(symbol, action, FALSE, TRUE, None, reason), h, cs, f, loc,
                      "none"),
              TradeRecord(symbol, action, "skipped", reason))

HaltReasonOr(h, default) == IF h.reason # "" THEN h.reason ELSE default

\* The id the broker gives the next order: the smallest one not in use.
FreeOrderIds == {i \in OrderIds : orders[i].status = "free"}
FreshOrderId ==
    IF FreeOrderIds = {} THEN 0
    ELSE CHOOSE i \in FreeOrderIds : \A j \in FreeOrderIds : i <= j

OpenPositions == {s \in Symbols : positions[s] # "none"}

\* Mutant: every failure of the broker's close call halts, the benign ones too.
ClosePositionListed_no_benign(symbol, env, h) ==
    IF positions[symbol] = "none"
    THEN _log_skip(symbol, "CLOSE", "no_position", h, {"get_all_positions"}, "none", NoLocals)
    ELSE IF positions[symbol] = "held"
    THEN _log_skip(symbol, "CLOSE", "position_held", h, {"get_all_positions"}, "none", NoLocals)
    ELSE LET cs == {"get_all_positions", "close_position"}
         IN  IF env.close = "ok"
             THEN log_trade(Outcome(ExecutionResult(symbol, "CLOSE", TRUE, FALSE, None, "None"),
                                    h, cs, "none", NoLocals, "closed"),
                            TradeRecord(symbol, "CLOSE", "closed", "exit"))
             ELSE LET h2 == _set_halt("alpaca_close_failed")
                  IN  _log_skip(symbol, "CLOSE", HaltReasonOr(h2, "alpaca_close_failed"),
                                h2, cs, "close_position", NoLocals)

\* save_state raises (portfolio_state.py:47-50) under clear_entry_timestamp,
\* which writes only when the store has the symbol (portfolio_state.py:67-72).
StoreWriteFails(symbol, env) ==
    env.store = "raise" /\ ~IsNone(entry_timestamps[symbol])

\* close_position once the positions are listed (execution_adapter.py:495-563).
ClosePositionListed(symbol, env, h) ==
    IF positions[symbol] = "none"
    THEN _log_skip(symbol, "CLOSE", "no_position", h, {"get_all_positions"}, "none", NoLocals)
    ELSE IF positions[symbol] = "held"
    THEN _log_skip(symbol, "CLOSE", "position_held", h, {"get_all_positions"}, "none", NoLocals)
    ELSE LET cs == {"get_all_positions", "close_position"}
         IN  IF env.close = "ok" /\ StoreWriteFails(symbol, env)
             THEN LET h2 == _set_halt("alpaca_close_failed")
                  IN  [_log_skip(symbol, "CLOSE", HaltReasonOr(h2, "alpaca_close_failed"),
                                 h2, cs, "save_state", NoLocals)
                          EXCEPT !.response = "closed_unrecorded"]
             ELSE IF env.close = "ok"
             THEN log_trade(Outcome(ExecutionResult(symbol, "CLOSE", TRUE, FALSE, None, "None"),
                                    h, cs, "none", NoLocals, "closed"),
                            TradeRecord(symbol, "CLOSE", "closed", "exit"))
             ELSE IF env.close = "benign"
             THEN _log_skip(symbol, "CLOSE", "position_unavailable", h, cs,
                            "close_position", NoLocals)
             ELSE LET h2 == _set_halt("alpaca_close_failed")
                  IN  _log_skip(symbol, "CLOSE", HaltReasonOr(h2, "alpaca_close_failed"),
                                h2, cs, "close_position", NoLocals)

\* Mutant: a close that honours the halt flag as an entry does.
close_position_halt_checked(symbol, reason, env, h) ==
    IF symbol = "" THEN _log_skip("", "CLOSE", "missing_symbol", h, {}, "none", NoLocals)
    ELSE IF trading_client = "none"
    THEN _log_skip(symbol, "CLOSE", "trading_client_unavailable", h, {}, "none", NoLocals)
    ELSE IF dry_run
    THEN log_trade(Outcome(ExecutionResult(symbol, "CLOSE", FALSE, TRUE, None, "dry_run"),
                           h, {}, "none", NoLocals, "none"),
                   TradeRecord(symbol, "CLOSE", "dry_run", reason))
    ELSE IF h.halted
    THEN _log_skip(symbol, "CLOSE", HaltReasonOr(h, "alpaca_api_error"), h, {}, "none", NoLocals)
    ELSE IF ~env.list_ok
    THEN LET h2 == _set_halt("alpaca_list_positions_failed")
         IN  _log_skip(symbol, "CLOSE", HaltReasonOr(h2, "alpaca_api_error"), h2,
                       {"get_all_positions"}, "get_all_positions", NoLocals)
    ELSE ClosePositionListed(symbol, env, h)

\* Mutant: a close that does not look at dry_run.
close_position_no_dry_run(symbol, reason, env, h) ==
    IF symbol = "" THEN _log_skip("", "CLOSE", "missing_symbol", h, {}, "none", NoLocals)
    ELSE IF trading_client = "none"
    THEN _log_skip(symbol, "CLOSE", "trading_client_unavailable", h, {}, "none", NoLocals)
    ELSE IF ~env.list_ok
    THEN LET h2 == _set_halt("alpaca_list_positions_failed")
         IN  _log_skip(symbol, "CLOSE", HaltReasonOr(h2, "alpaca_api_error"), h2,
                       {"get_all_positions"}, "get_all_positions", NoLocals)
    ELSE ClosePositionListed(symbol, env, h)

close_position(symbol, reason, env, h) ==
    IF symbol = "" THEN _log_skip("", "CLOSE", "missing_symbol", h, {}, "none", NoLocals)
    ELSE IF trading_client = "none"
    THEN _log_skip(symbol, "CLOSE", "trading_client_unavailable", h, {}, "none", NoLocals)
    ELSE IF dry_run
    THEN log_trade(Outcome(ExecutionResult(symbol, "CLOSE", FALSE, TRUE, None, "dry_run"),
                           h, {}, "none", NoLocals, "none"),
                   TradeRecord(symbol, "CLOSE", "dry_run", reason))
    ELSE IF ~env.list_ok
    THEN LET h2 == _set_halt("alpaca_list_positions_failed")
         IN  _log_skip(symbol, "CLOSE", HaltReasonOr(h2, "alpaca_api_error"), h2,
                       {"get_all_positions"}, "get_all_positions", NoLocals)
    ELSE ClosePositionListed(symbol, env, h)

final_qty_requested(requested_qty, sized_qty) ==
    IF requested_qty > 0 THEN requested_qty ELSE sized_qty

\* execution_adapter.py:386.
final_qty(requested_qty, sized_qty) ==
    IF requested_qty > 0 THEN Min(requested_qty, sized_qty) ELSE sized_qty

\* execution_adapter.py:391-394: the reason the buying power blocks the order
\* with, "" when it does not.
buying_power_block_naive(notional, buying_power) ==
    IF IsNone(buying_power) \/ (~IsNone(buying_power) /\ Val(buying_power) <= 0)
    THEN "buying_power_unavailable"
    ELSE ""

buying_power_block(notional, buying_power) ==
    IF IsNone(buying_power) \/ (~IsNone(buying_power) /\ Val(buying_power) <= 0)
    THEN "buying_power_unavailable"
    ELSE IF notional > Val(buying_power) THEN "buying_power_insufficient"
    ELSE ""

\* execution_adapter.py:343.
invalid_bracket_lax(entry_price, stop_loss, take_profit) ==
    stop_loss <= 0 \/ take_profit <= 0 \/ stop_loss > entry_price
        \/ take_profit < entry_price

invalid_bracket(entry_price, stop_loss, take_profit) ==
    stop_loss <= 0 \/ take_profit <= 0 \/ stop_loss >= entry_price
        \/ take_profit <= entry_price

\* execute_signal from the resolved bracket on: account, sizing, buying power,
\* dry run, submit_order.
BuySubmit(symbol, signal, crash, env, h, loc0) ==
    LET cs1 == {"get_all_positions", "get_account"}
    IN  IF IsNone(env.account)
        THEN LET h2 == _set_halt("alpaca_get_account_failed")
             IN  _log_skip(symbol, "BUY", HaltReasonOr(h2, "alpaca_api_error"), h2, cs1,
                           "get_account", loc0)
        ELSE
        LET equity == Val(env.account).equity
            buying_power == Val(env.account).buying_power
            max_notional == max_position_notional(equity, crash)
            base_risk == IF ~IsNone(signal.max_risk_pct) /\ Val(signal.max_risk_pct) # 0
                         THEN Val(signal.max_risk_pct) ELSE settings_max_risk_pct
            max_risk_pct == IF crash THEN Frac(base_risk, 2 * PctScale)
                            ELSE Frac(base_risk, PctScale)
            sized_qty == size_position(Val(loc0.entry_price), Val(loc0.stop_loss), equity,
                                       max_risk_pct, max_notional, 1)
            requested_qty == signal.requested_qty
            qty == final_qty(requested_qty, sized_qty)
            loc == [loc0 EXCEPT !.equity = equity, !.buying_power = buying_power,
                                !.max_notional = Some(max_notional),
                                !.max_risk_pct = Some(max_risk_pct),
                                !.requested_qty = Some(requested_qty),
                                !.sized_qty = Some(sized_qty), !.qty = Some(qty)]
            notional == Val(loc0.entry_price) * qty
        IN  IF qty <= 0 THEN _log_skip(symbol, "BUY", "risk_sizing_blocked", h, cs1, "none", loc)
            ELSE IF buying_power_block(notional, buying_power) # ""
            THEN _log_skip(symbol, "BUY", buying_power_block(notional, buying_power), h, cs1,
                           "none", loc)
            ELSE IF dry_run
            THEN log_trade(Outcome(ExecutionResult(symbol, "BUY", FALSE, TRUE, None, "dry_run"),
                                   h, cs1, "none", loc, "none"),
                           TradeRecord(symbol, "BUY", "dry_run", "None"))
            ELSE IF env.submit = "raise"
            THEN LET h2 == _set_halt("alpaca_submit_failed")
                 IN  _log_skip(symbol, "BUY", HaltReasonOr(h2, "alpaca_submit_failed"), h2,
                               cs1 \cup {"submit_order"}, "submit_order", loc)
            ELSE IF env.submit = "filled" /\ env.store = "raise"
            THEN LET h2 == _set_halt("alpaca_submit_failed")
                 IN  [_log_skip(symbol, "BUY", HaltReasonOr(h2, "alpaca_submit_failed"), h2,
                                cs1 \cup {"submit_order"}, "save_state", loc)
                         EXCEPT !.response = "filled_unrecorded"]
            ELSE log_trade(Outcome(ExecutionResult(symbol, "BUY", TRUE, FALSE,
                                                   Some(FreshOrderId), "None"),
                                   h, cs1 \cup {"submit_order"}, "none", loc, env.submit),
                           TradeRecord(symbol, "BUY", "submitted", "None"))

\* Mutant: an explicit percent is used before an explicit price.
BuyBracket_pct_first(symbol, signal, crash, env, h, entry_price) ==
    LET cs == {"get_all_positions"}
        sl_pct == signal.stop_loss_pct
        tp_pct == signal.take_profit_pct
        stop1 == IF ~IsNone(sl_pct) /\ 0 < Val(sl_pct) /\ Val(sl_pct) < PctScale
                 THEN Some(RoundHalfEven(entry_price * (PctScale - Val(sl_pct)), PctScale))
                 ELSE signal.stop_loss_price
        take1 == IF ~IsNone(tp_pct) /\ 0 < Val(tp_pct) /\ Val(tp_pct) < PctScale
                 THEN Some(RoundHalfEven(entry_price * (PctScale + Val(tp_pct)), PctScale))
                 ELSE signal.take_profit_price
        stop_loss == IF IsNone(stop1) THEN stop_loss_price(entry_price, crash) ELSE Val(stop1)
        take_profit == IF IsNone(take1) THEN take_profit_price(entry_price, crash) ELSE Val(take1)
        loc == [NoLocals EXCEPT !.entry_price = Some(entry_price),
                                !.stop_loss = Some(stop_loss),
                                !.take_profit = Some(take_profit)]
        noted == [loc EXCEPT !.entry_metadata =
                                EntryMetadata(signal, entry_price, stop_loss, take_profit)]
    IN  IF invalid_bracket(entry_price, stop_loss, take_profit)
        THEN _log_skip(symbol, "BUY", "invalid_bracket", h, cs, "none", loc)
        ELSE BuySubmit(symbol, signal, crash, env, h, noted)

\* execute_signal from the entry price on: the two bracket legs and their check.
BuyBracket(symbol, signal, crash, env, h, entry_price) ==
    LET cs == {"get_all_positions"}
        sl_pct == signal.stop_loss_pct
        tp_pct == signal.take_profit_pct
        stop1 == IF IsNone(signal.stop_loss_price) /\ ~IsNone(sl_pct)
                    /\ 0 < Val(sl_pct) /\ Val(sl_pct) < PctScale
                 THEN Some(RoundHalfEven(entry_price * (PctScale - Val(sl_pct)), PctScale))
                 ELSE signal.stop_loss_price
        take1 == IF IsNone(signal.take_profit_price) /\ ~IsNone(tp_pct)
                    /\ 0 < Val(tp_pct) /\ Val(tp_pct) < PctScale
                 THEN Some(RoundHalfEven(entry_price * (PctScale + Val(tp_pct)), PctScale))
                 ELSE signal.take_profit_price
        stop_loss == IF IsNone(stop1) THEN stop_loss_price(entry_price, crash) ELSE Val(stop1)
        take_profit == IF IsNone(take1) THEN take_profit_price(entry_price, crash) ELSE Val(take1)
        loc == [NoLocals EXCEPT !.entry_price = Some(entry_price),
                                !.stop_loss = Some(stop_loss),
                                !.take_profit = Some(take_profit)]
        noted == [loc EXCEPT !.entry_metadata =
                                EntryMetadata(signal, entry_price, stop_loss, take_profit)]
    IN  IF invalid_bracket(entry_price, stop_loss, take_profit)
        THEN _log_skip(symbol, "BUY", "invalid_bracket", h, cs, "none", loc)
        ELSE BuySubmit(symbol, signal, crash, env, h, noted)

execute_signal(signal, crash, env) ==
    LET symbol == signal.symbol
        action == signal.action
        h0 == HaltState
        h == _reset_halt_if_ready(h0)
    IN  IF symbol = "" THEN _log_skip("", action, "missing_symbol", h0, {}, "none", NoLocals)
        ELSE IF action \in {"SELL", "CLOSE"} THEN close_position(symbol, "None", env, h)
        ELSE IF action # "BUY"
        THEN _log_skip(symbol, action, "unsupported_action", h, {}, "none", NoLocals)
        ELSE IF trading_client = "none"
        THEN _log_skip(symbol, action, "trading_client_unavailable", h, {}, "none", NoLocals)
        ELSE IF h.halted
        THEN _log_skip(symbol, action, HaltReasonOr(h, "alpaca_api_error"), h, {}, "none", NoLocals)
        ELSE IF ~env.list_ok
        THEN LET h2 == _set_halt("alpaca_list_positions_failed")
             IN  _log_skip(symbol, action, HaltReasonOr(h2, "alpaca_api_error"), h2,
                           {"get_all_positions"}, "get_all_positions", NoLocals)
        ELSE LET cs == {"get_all_positions"}
                 max_positions == IF crash THEN CRASH_MAX_POSITIONS_EXEC ELSE MAX_POSITIONS
             IN  IF Cardinality(OpenPositions) >= max_positions
                 THEN _log_skip(symbol, action, "max_positions_reached", h, cs, "none", NoLocals)
                 ELSE IF symbol \in OpenPositions
                 THEN _log_skip(symbol, action, "position_exists", h, cs, "none", NoLocals)
                 ELSE IF IsNone(signal.entry_price) /\ IsNone(env.price)
                 THEN _log_skip(symbol, action, "price_unavailable", h, cs, "none", NoLocals)
                 ELSE LET entry_price == IF IsNone(signal.entry_price) THEN Val(env.price)
                                         ELSE Val(signal.entry_price)
                      IN  IF entry_price <= 0
                          THEN _log_skip(symbol, action, "invalid_entry_price", h, cs, "none",
                                         NoLocals)
                          ELSE BuyBracket(symbol, signal, crash, env, h, entry_price)

(* ------------------------------ broker -------------------------------- *)
NoOrder == [symbol |-> "", status |-> "free", filled_at |-> None]
TerminalStatuses == {"canceled", "rejected", "expired"}
WorkingStatuses == {"new", "partially_filled"}

PendingIds(pending) == {pending[i].order_id : i \in DOMAIN pending}

\* The broker's orders the program can still ask about or that can still fill:
\* an order that is done and that no PendingEntry names is forgotten.
Prune(ords, pending) ==
    [i \in OrderIds |->
        IF ords[i].status \notin WorkingStatuses /\ i \notin PendingIds(pending)
        THEN NoOrder ELSE ords[i]]

(* --------------------------- reconciliation --------------------------- *)
entry_never_expired(submitted_at) == FALSE

\* execution_adapter.py:168.
entry_expired(submitted_at) ==
    submitted_at # 0 /\ (now - submitted_at) > _pending_entry_ttl_seconds

\* reconcile_pending_entries: one pass over the entries in insertion order.  An
\* order id in `unfetched` is one whose lookup raises (or returns nothing).
RECURSIVE Sweep(_, _, _, _)
Sweep(entries, unfetched, kept, ts) ==
    IF entries = <<>> THEN [pending |-> kept, timestamps |-> ts]
    ELSE
    LET payload == Head(entries)
        rest == Tail(entries)
        submitted_at == payload.submitted_at
        order == orders[payload.order_id]
        filled_at == IF IsNone(order.filled_at)
                        /\ order.status \in {"filled", "partially_filled"}
                     THEN Some(now) ELSE order.filled_at
    IN  IF entry_expired(submitted_at)
        THEN Sweep(rest, unfetched, kept, ts)
        ELSE IF payload.order_id \in unfetched
        THEN Sweep(rest, unfetched, Append(kept, payload), ts)
        ELSE IF ~IsNone(filled_at)
        THEN Sweep(rest, unfetched, kept,
                   IF payload.symbol # "" THEN [ts EXCEPT ![payload.symbol] = filled_at]
                   ELSE ts)
        ELSE IF order.status \in TerminalStatuses
        THEN Sweep(rest, unfetched, kept, ts)
        ELSE Sweep(rest, unfetched, Append(kept, payload), ts)

reconcile_pending_entries(unfetched) ==
    Sweep(_pending_entries, unfetched, <<>>, entry_timestamps)

\* The fills reconcile_pending_entries logs (execution_adapter.py:200-208): one
\* for each entry with a symbol that is neither expired nor unfetched and whose
\* order is filled, the broker reporting its fill price.
FillsLogged(unfetched) ==
    {TradeRecord(_pending_entries[i].symbol, "None", "filled", "None") :
        i \in {j \in DOMAIN _pending_entries :
                LET payload == _pending_entries[j]
                    order == orders[payload.order_id]
                IN  /\ ~entry_expired(payload.submitted_at)
                    /\ payload.order_id \notin unfetched
                    /\ payload.symbol # ""
                    /\ \/ ~IsNone(order.filled_at)
                       \/ order.status \in {"filled", "partially_filled"}}}

(* ------------------------------ inputs -------------------------------- *)
\* A TradeSignal as main.py builds it (main.py:135-145): symbol, action and
\* requested_qty only; the adapter also accepts SELL, CLOSE and other actions.
Signal(symbol, action, entry_price, sl, tp, sl_pct, tp_pct, requested_qty, max_risk_pct) ==
    [symbol |-> symbol, action |-> action, entry_price |-> entry_price,
     stop_loss_price |-> sl, take_profit_price |-> tp,
     stop_loss_pct |-> sl_pct, take_profit_pct |-> tp_pct,
     requested_qty |-> requested_qty, max_risk_pct |-> max_risk_pct,
     max_hold_minutes |-> None, data_source |-> ""]

Actions == {"BUY", "SELL", "CLOSE", "HOLD"}

FlowSymbols == {"AAA"}
FlowSignals ==
    {Signal(s, a, None, None, None, None, None, q, None) :
        s \in FlowSymbols, a \in Actions, q \in {100}}

Account(equity, buying_power) == [equity |-> equity, buying_power |-> buying_power]

\* What the broker and the price router answer during one call.
Env(list_ok, price, account, submit, close, held) ==
    [list_ok |-> list_ok, price |-> price, account |-> account, submit |-> submit,
     close |-> close, held |-> held, store |-> "ok"]

SubmitResponses == {"raise", "new", "partially_filled", "filled"}
CloseResponses == {"ok", "benign", "error"}

FullAccount == Some(Account(Some(10000000), Some(10000000)))

\* One answer for each way through a BUY: the listing fails, no price, the
\* account fails, the buying power is short, submit_order raises or returns a
\* filled order (free or held by its legs).  Orders that stay working are
\* followed in LiveSpec.
FlowBuyEnvs ==
    {Env(FALSE, None, None, "raise", "ok", FALSE),
     Env(TRUE, None, None, "raise", "ok", FALSE),
     Env(TRUE, Some(5000), None, "raise", "ok", FALSE),
     Env(TRUE, Some(5000), Some(Account(Some(10000000), Some(50000))), "raise", "ok", FALSE)}
    \cup {Env(TRUE, Some(5000), FullAccount, sub, "ok", FALSE) : sub \in {"raise", "filled"}}
    \cup {Env(TRUE, Some(5000), FullAccount, "filled", "ok", TRUE)}

\* One answer for each way through a close.
FlowCloseEnvs ==
    {Env(FALSE, None, None, "raise", "ok", FALSE)}
    \cup {Env(TRUE, None, None, "raise", c, FALSE) : c \in CloseResponses}

FlowEnvs(signal) ==
    IF signal.action = "BUY" THEN FlowBuyEnvs
    ELSE IF signal.action \in {"SELL", "CLOSE"} THEN FlowCloseEnvs
    ELSE {Env(TRUE, None, None, "raise", "ok", FALSE)}

(* ------------------------------ actions ------------------------------- *)
BlankResult == ExecutionResult("", "", FALSE, FALSE, None, "None")

\* A position dict as should_exit reads it; the keys in `absent` are not in it.
Position(symbol, absent, price, entry, tp_pct, sl_pct, max_hold, entry_ts, source) ==
    [symbol |-> symbol, absent |-> absent, current_price |-> price,
     entry_price |-> entry, take_profit_pct |-> tp_pct, stop_loss_pct |-> sl_pct,
     max_hold_minutes |-> max_hold, entry_timestamp |-> entry_ts,
     data_source |-> source]

NoBars == Bars("empty", None, 0, FALSE)
NoEval ==
    [position |-> Position("", {}, None, None, None, None, None, None, ""),
     crash |-> FALSE, frame |-> NoBars, raised |-> FALSE, value |-> FALSE, via |-> "",
     before |-> [kind |-> "none", at |-> 0]]

\* Between two cycles.
Sleeping ==
    [phase |-> "sleep", market_open |-> FALSE, pnl_state |-> None, crash |-> FALSE,
     outcome |-> "", was_open |-> {}, listed |-> {}, todo |-> {}, unpriced |-> {},
     evaluated |-> {}, called |-> {}]

NoCall == [fn |-> ""]

\* No TTLCache has been constructed.
CacheKeys == {"a", "b", "c"}
NoCache ==
    [built |-> FALSE, raised |-> "", max_size |-> None, default_ttl |-> 0,
     _data |-> [k \in CacheKeys |-> None], got |-> ""]

\* The module globals after import.
InitAdapter ==
    /\ _halt_new_entries = FALSE
    /\ _halt_reason = ""
    /\ _halt_until = 0
    /\ _pending_entries = <<>>
    /\ orders = [i \in OrderIds |-> NoOrder]
    /\ batchLeft = 0
    /\ crash_mode = FALSE
    /\ lastOp = "init"
    /\ entered_halted = FALSE
    /\ result = BlankResult
    /\ calls = {}
    /\ failed = "none"
    /\ locals = NoLocals
    /\ trade_log = {}
    /\ entry_failure = None
    /\ _exit_error_counts = [s \in Symbols |-> NoErrors]
    /\ exit_eval = NoEval
    /\ exit_history = [s \in Symbols |-> [kind |-> "none", at |-> 0]]
    /\ cycle = Sleeping
    /\ pure = NoCall
    /\ cache = NoCache

InitProgram ==
    /\ now = StartTime
    /\ InitAdapter
    /\ entry_timestamps = [s \in Symbols |-> None]
    /\ positions = [s \in Symbols |-> "none"]

Init ==
    /\ execution_halt_cooldown_seconds \in {0, 2 * TickSeconds}
    /\ dry_run \in BOOLEAN
    /\ trading_client \in {"none", "alpaca"}
    /\ MAX_POSITION_SIZE = DefaultMaxPositionSize
    /\ InitProgram

SetHalt(h) ==
    /\ _halt_new_entries' = h.halted
    /\ _halt_reason' = h.reason
    /\ _halt_until' = h.until

Report(op, o) ==
    /\ lastOp' = op
    /\ entered_halted' = _halt_new_entries
    /\ result' = o.result
    /\ calls' = o.calls
    /\ failed' = o.failed
    /\ locals' = o.locals
    /\ trade_log' = o.logged

\* A call that returns no ExecutionResult, and the events it logged.
ReportLogged(op, logged) ==
    /\ lastOp' = op
    /\ entered_halted' = _halt_new_entries
    /\ result' = BlankResult
    /\ calls' = {}
    /\ failed' = "none"
    /\ locals' = NoLocals
    /\ trade_log' = logged

ReportOnly(op) == ReportLogged(op, {})

\* An environment step: the last call's report is over.
NoReport ==
    /\ lastOp' = "env"
    /\ entered_halted' = FALSE
    /\ result' = BlankResult
    /\ calls' = {}
    /\ failed' = "none"
    /\ locals' = NoLocals
    /\ trade_log' = {}

\* The failed entry is remembered until its cooldown has run out at time t.
Remembered(f, t) == IF ~IsNone(f) /\ t >= Val(f).until THEN None ELSE f

\* A PendingEntry expires one tick after its TTL at the latest; orders that stay
\* working are only submitted while the clock can still get there.
ClockHasRoom == now + _pending_entry_ttl_seconds + TickSeconds <= MaxTime

Tick ==
    /\ now + TickSeconds <= MaxTime
    /\ now' = now + TickSeconds
    /\ NoReport
    /\ entry_failure' = Remembered(entry_failure, now + TickSeconds)
    /\ UNCHANGED <<config, haltVars, _pending_entries, entry_timestamps, positions,
                   orders, batchLeft, crash_mode>>
    /\ UNCHANGED loopVars

\* execute_signals(signals, crash_mode): the halt reset, then the loop over the
\* signals, one execute_signal per step.  An empty list returns at once.
execute_signals(n, crash) ==
    /\ batchLeft = 0
    /\ n \in 1..MaxBatch
    /\ SetHalt(_reset_halt_if_ready(HaltState))
    /\ batchLeft' = n
    /\ crash_mode' = crash
    /\ ReportOnly("execute_signals")
    /\ UNCHANGED <<config, now, _pending_entries, entry_timestamps, positions, orders,
                   entry_failure>>
    /\ UNCHANGED loopVars

\* What an accepted close does: the broker sells the position, the store forgets
\* the symbol.
ApplyClose(o) ==
    /\ positions' = [positions EXCEPT ![o.result.symbol] = "none"]
    /\ entry_timestamps' = [entry_timestamps EXCEPT ![o.result.symbol] = None]
    /\ UNCHANGED <<_pending_entries, orders>>

\* What an accepted submit_order does (execution_adapter.py:429-438).
ApplySubmit(o, env, limit) ==
    LET id == Val(o.result.order_id)
        symbol == o.result.symbol
    IN  /\ id # 0
        /\ id <= limit
        /\ o.response = "filled" \/ ClockHasRoom
        /\ IF o.response = "filled"
           THEN /\ entry_timestamps' = [entry_timestamps EXCEPT ![symbol] = Some(now)]
                /\ positions' = [positions EXCEPT
                                    ![symbol] = IF env.held THEN "held" ELSE "open"]
                /\ UNCHANGED <<_pending_entries, orders>>
           ELSE /\ IF _can_fetch_orders
                   THEN /\ _pending_entries' = Append(_pending_entries,
                                [order_id |-> id, symbol |-> symbol, submitted_at |-> now])
                        /\ UNCHANGED entry_timestamps
                   ELSE /\ entry_timestamps' = [entry_timestamps EXCEPT ![symbol] = Some(now)]
                        /\ UNCHANGED _pending_entries
                /\ orders' = [orders EXCEPT ![id] =
                                [symbol |-> symbol, status |-> o.response, filled_at |-> None]]
                /\ positions' = IF o.response = "partially_filled"
                                   /\ positions[symbol] = "none"
                                THEN [positions EXCEPT ![symbol] = "open"]
                                ELSE positions

\* The broker took the order or the close, and save_state raised under the
\* write of the store that follows (execution_adapter.py:433, 533): the
\* position is bought or sold, and the store is as it was.
ApplyUnrecorded(o, env) ==
    /\ positions' = [positions EXCEPT ![o.result.symbol] =
                        IF o.response = "closed_unrecorded" THEN "none"
                        ELSE IF env.held THEN "held" ELSE "open"]
    /\ UNCHANGED <<_pending_entries, entry_timestamps, orders>>

Apply(o, env, limit) ==
    IF o.response = "none"
    THEN UNCHANGED <<_pending_entries, entry_timestamps, positions, orders>>
    ELSE IF o.response = "closed" THEN ApplyClose(o)
    ELSE IF o.response \in {"filled_unrecorded", "closed_unrecorded"}
    THEN ApplyUnrecorded(o, env)
    ELSE ApplySubmit(o, env, limit)

EntryFailed(o) ==
    o.result.action = "BUY" /\ o.failed # "none"

\* One iteration of the loop of execute_signals.  `limit` bounds the orders the
\* broker holds: a submission beyond it is not followed.
ExecuteSignalCall(signal, env, limit) ==
    /\ batchLeft > 0
    /\ LET o == execute_signal(signal, crash_mode, env)
       IN  /\ SetHalt(o.halt)
           /\ Report("execute_signal", o)
           /\ Apply(o, env, limit)
           /\ entry_failure' =
                 IF EntryFailed(o)
                 THEN Remembered(Some([reason |-> o.halt.reason,
                                       until |-> now + Max(execution_halt_cooldown_seconds, 0)]),
                                 now)
                 ELSE entry_failure
    /\ batchLeft' = batchLeft - 1
    /\ crash_mode' = IF batchLeft = 1 THEN FALSE ELSE crash_mode
    /\ UNCHANGED <<config, now>>

ExecuteSignal(signal, env, limit) ==
    /\ ExecuteSignalCall(signal, env, limit)
    /\ UNCHANGED loopVars

\* The same call, its arguments noted.
ExecuteSignalNoted(signal, env, limit) ==
    /\ ExecuteSignalCall(signal, env, limit)
    /\ pure' = [fn |-> "execute_signal", signal |-> signal, crash |-> crash_mode, env |-> env]
    /\ UNCHANGED <<exitVars, cycle, cache>>

\* close_position called by the exit checks of the cycle (main.py:188).
ClosePosition(symbol, env) ==
    /\ batchLeft = 0
    /\ LET o == close_position(symbol, "exit", env, HaltState)
       IN  /\ SetHalt(o.halt)
           /\ Report("close_position", o)
           /\ Apply(o, env, 0)
    /\ UNCHANGED <<config, now, batchLeft, crash_mode, entry_failure>>
    /\ UNCHANGED loopVars

ReconcilePendingEntries(unfetched) ==
    /\ batchLeft = 0
    /\ trading_client # "none"
    /\ _pending_entries # <<>>
    /\ unfetched \subseteq PendingIds(_pending_entries)
    /\ LET r == reconcile_pending_entries(unfetched)
       IN  /\ _pending_entries' = r.pending
           /\ entry_timestamps' = r.timestamps
           /\ orders' = Prune(orders, r.pending)
    /\ ReportLogged("reconcile_pending_entries", FillsLogged(unfetched))
    /\ UNCHANGED <<config, now, haltVars, positions, batchLeft, crash_mode, entry_failure>>
    /\ UNCHANGED loopVars

\* The broker fills a working order, wholly or in part, or ends it unfilled.
BrokerFill(id, held) ==
    /\ orders[id].status \in WorkingStatuses
    /\ orders' = Prune([orders EXCEPT ![id].status = "filled", ![id].filled_at = Some(now)],
                       _pending_entries)
    /\ positions' = [positions EXCEPT
                        ![orders[id].symbol] = IF held THEN "held" ELSE "open"]
    /\ NoReport
    /\ UNCHANGED <<config, now, haltVars, _pending_entries, entry_timestamps,
                   batchLeft, crash_mode, entry_failure>>
    /\ UNCHANGED loopVars

BrokerPartialFill(id) ==
    /\ orders[id].status = "new"
    /\ orders' = [orders EXCEPT ![id].status = "partially_filled"]
    /\ positions' = IF positions[orders[id].symbol] = "none"
                    THEN [positions EXCEPT ![orders[id].symbol] = "open"]
                    ELSE positions
    /\ NoReport
    /\ UNCHANGED <<config, now, haltVars, _pending_entries, entry_timestamps,
                   batchLeft, crash_mode, entry_failure>>
    /\ UNCHANGED loopVars

BrokerEnd(id, status) ==
    /\ orders[id].status = "new"
    /\ orders' = Prune([orders EXCEPT ![id].status = status], _pending_entries)
    /\ NoReport
    /\ UNCHANGED <<config, now, haltVars, _pending_entries, entry_timestamps,
                   positions, batchLeft, crash_mode, entry_failure>>
    /\ UNCHANGED loopVars

\* A bracket leg (or anything else at the broker) closes a position.
BrokerExit(symbol) ==
    /\ positions[symbol] # "none"
    /\ positions' = [positions EXCEPT ![symbol] = "none"]
    /\ NoReport
    /\ UNCHANGED <<config, now, haltVars, _pending_entries, entry_timestamps,
                   orders, batchLeft, crash_mode, entry_failure>>
    /\ UNCHANGED loopVars

(* ------------------- the loop against a failing broker ----------------- *)
Next ==
    \/ Tick
    \/ \E n \in 1..MaxBatch, crash \in BOOLEAN : execute_signals(n, crash)
    \/ \E signal \in FlowSignals : \E env \in FlowEnvs(signal) :
            ExecuteSignal(signal, env, MaxOrders)
    \/ \E symbol \in FlowSymbols, env \in FlowCloseEnvs : ClosePosition(symbol, env)
    \/ \E symbol \in FlowSymbols : BrokerExit(symbol)

Spec == Init /\ [][Next]_vars

(* ------------- entries while earlier orders are unfilled --------------- *)
\* The cycle of main.py hands execute_signals one BUY per allocated symbol.
EntrySignals ==
    {Signal(s, "BUY", None, None, None, None, None, 50, None) : s \in Symbols}

\* The broker accepts every order and fills it later.
EntryEnvs ==
    {Env(TRUE, Some(5000), FullAccount, "new", "ok", FALSE)}

\* 50 shares at 50.00, in cents.
EntryNotional == 50 * 5000

\* The symbols the account is exposed to: listed positions and working entry
\* orders.
Exposure ==
    OpenPositions \cup {orders[i].symbol : i \in {j \in OrderIds : orders[j].status \in WorkingStatuses}}

\* main.py:109-146: the allocations are admitted one by one by
\* can_open_position against the listed positions, then handed to
\* execute_signals as one batch.
MicrocapEntries(n, crash) ==
    /\ \A k \in 0..(n - 1) :
          can_open_position(Cardinality(OpenPositions) + k, EntryNotional, crash,
                            FullAccount[1].equity, None)
    /\ execute_signals(n, crash)

EntryInit ==
    /\ execution_halt_cooldown_seconds = 2 * TickSeconds
    /\ dry_run = FALSE
    /\ trading_client = "alpaca"
    /\ MAX_POSITION_SIZE = DefaultMaxPositionSize
    /\ InitProgram

EntryNext ==
    \/ \E n \in 1..MaxBatch, crash \in BOOLEAN : MicrocapEntries(n, crash)
    \/ \E signal \in EntrySignals, env \in EntryEnvs :
            ExecuteSignal(signal, env, MaxEntryOrders)
    \/ \E id \in OrderIds : BrokerFill(id, FALSE)

EntrySpec == EntryInit /\ [][EntryNext]_vars

(* ------------------ brackets, sizing and buying power ------------------ *)
\* Prices in cents: half a dollar and fifty dollars.
SizingPrices == {50, 5000}

\* A signal of generate_swing_signals at its base percents, handed to
\* execute_signal whole (swing.py:20-22, 101-108), and what is noted of it.
_BASE_STOP_LOSS_PCT == 200
_BASE_TAKE_PROFIT_PCT == 500
_MAX_HOLD_MINUTES == 24 * 60
SwingTradeSignal ==
    [Signal("AAA", "BUY", None, None, None, Some(_BASE_STOP_LOSS_PCT),
            Some(_BASE_TAKE_PROFIT_PCT), 1, None)
        EXCEPT !.max_hold_minutes = Some(_MAX_HOLD_MINUTES), !.data_source = "daily"]
SwingMetadata ==
    Metadata(Some(_BASE_STOP_LOSS_PCT), Some(_BASE_TAKE_PROFIT_PCT), Some(_MAX_HOLD_MINUTES),
             "daily")

\* BUY signals with every way to give the bracket: explicit prices (below, at
\* and above an entry of 50.00), explicit percents (2.5% and 2%, and 100%,
\* which the code ignores), or nothing.
SizingSignals ==
    {Signal("AAA", "BUY", e, sl, tp, slp, tpp, q, r) :
        e \in {None} \cup {Some(x) : x \in SizingPrices},
        sl \in {None, Some(0), Some(4875), Some(5000)},
        tp \in {None, Some(5000), Some(5100)},
        slp \in {None, Some(250), Some(PctScale)},
        tpp \in {None, Some(200)},
        q \in {0, 1, 100},
        r \in {None, Some(100)}}
    \cup {SwingTradeSignal}

\* Accounts: equity absent, zero or 10 000.00; buying power also 500.00 or
\* 100 000.00.
SizingMoney == {None, Some(0), Some(50000), Some(1000000), Some(10000000)}

SizingEnvs ==
    {Env(TRUE, Some(5000), Some(Account(eq, bp)), "filled", "ok", FALSE) :
        eq \in {None, Some(0), Some(1000000)}, bp \in SizingMoney}

SizingInit ==
    /\ execution_halt_cooldown_seconds = 2 * TickSeconds
    /\ dry_run \in BOOLEAN
    /\ trading_client = "alpaca"
    /\ MAX_POSITION_SIZE \in {DefaultMaxPositionSize, Frac(0, 1)}
    /\ InitProgram

SizingNext ==
    \/ \E crash \in BOOLEAN : execute_signals(1, crash)
    \/ \E signal \in SizingSignals, env \in SizingEnvs :
            ExecuteSignal(signal, env, MaxOrders)
    \/ BrokerExit("AAA")

SizingSpec == SizingInit /\ [][SizingNext]_vars

(* -------------------------- the bracket legs --------------------------- *)
\* BUY signals at the router's price of 50.00 with each leg given as a price,
\* as a percent (2.5% and 2%, or 0% and 100%, which are no percents), as both
\* or not at all.
BracketSignals ==
    {Signal("AAA", "BUY", None, sl, tp, slp, tpp, 1, None) :
        sl \in {None, Some(4875), Some(4950)},
        tp \in {None, Some(5100)},
        slp \in {None, Some(0), Some(250), Some(PctScale)},
        tpp \in {None, Some(200), Some(PctScale)}}

BracketEnvs == {Env(TRUE, Some(5000), FullAccount, "filled", "ok", FALSE)}

BracketNext ==
    \/ \E crash \in BOOLEAN : execute_signals(1, crash)
    \/ \E signal \in BracketSignals, env \in BracketEnvs :
            ExecuteSignalNoted(signal, env, MaxOrders)
    \/ BrokerExit("AAA")

BracketSpec == EntryInit /\ [][BracketNext]_vars

(* ----------------------- a store that cannot be written ---------------- *)
\* The broker fills the order or closes the position, and the state file can
\* be written or not.
StoreSymbols == {"AAA", "BBB"}
StoreSignals == {Signal(s, "BUY", None, None, None, None, None, 50, None) : s \in StoreSymbols}
StoreEnvs ==
    {[Env(TRUE, Some(5000), FullAccount, "filled", "ok", FALSE) EXCEPT !.store = w] :
        w \in {"ok", "raise"}}

StoreNext ==
    \/ Tick
    \/ \E crash \in BOOLEAN : execute_signals(1, crash)
    \/ \E signal \in StoreSignals, env \in StoreEnvs : ExecuteSignal(signal, env, MaxOrders)
    \/ \E symbol \in StoreSymbols, env \in StoreEnvs : ClosePosition(symbol, env)

StoreSpec == EntryInit /\ [][StoreNext]_vars

(* ------------------- the life of a PendingEntry ------------------------ *)
LiveSignals == {Signal("AAA", "BUY", None, None, None, None, None, 50, None)}

\* The broker accepts the order and returns it new, partly filled or filled.
LiveEnvs ==
    {Env(TRUE, Some(5000), FullAccount, sub, "ok", FALSE) : sub \in SubmitResponses \ {"raise"}}

LiveInit ==
    /\ execution_halt_cooldown_seconds = TickSeconds
    /\ dry_run = FALSE
    /\ trading_client = "alpaca"
    /\ MAX_POSITION_SIZE = DefaultMaxPositionSize
    /\ InitProgram

\* A cycle sleeps between its batches, and a batch is started while the broker
\* can still take an order that the clock can follow to its expiry.
LiveTick == batchLeft = 0 /\ Tick
LiveBatch ==
    /\ FreshOrderId \in 1..MaxOrders
    /\ ClockHasRoom
    /\ execute_signals(1, FALSE)
LiveExecute == \E signal \in LiveSignals, env \in LiveEnvs : ExecuteSignal(signal, env, MaxOrders)
LiveSweep == \E unfetched \in SUBSET OrderIds : ReconcilePendingEntries(unfetched)

LiveNext ==
    \/ LiveTick
    \/ LiveBatch
    \/ LiveExecute
    \/ LiveSweep
    \/ \E id \in OrderIds : BrokerFill(id, FALSE)
    \/ \E id \in OrderIds : BrokerPartialFill(id)
    \/ \E id \in OrderIds, status \in TerminalStatuses : BrokerEnd(id, status)
    \/ \E symbol \in FlowSymbols : BrokerExit(symbol)

\* A running batch goes on; between the batches time passes and the sweep is
\* run, again and again.
LiveSpec ==
    /\ LiveInit /\ [][LiveNext]_vars
    /\ WF_vars(LiveExecute) /\ SF_vars(LiveTick) /\ SF_vars(LiveSweep)

(* ------------------- a close while an entry is pending ----------------- *)
\* The life of a PendingEntry with close_position called in between; a
\* position leaves the account through close_position only.
ReentryCloseEnvs == {Env(TRUE, None, None, "raise", "ok", FALSE)}
ReentryNext ==
    \/ LiveTick
    \/ LiveBatch
    \/ LiveExecute
    \/ LiveSweep
    \/ \E id \in OrderIds : BrokerFill(id, FALSE)
    \/ \E id \in OrderIds : BrokerPartialFill(id)
    \/ \E id \in OrderIds, status \in TerminalStatuses : BrokerEnd(id, status)
    \/ \E symbol \in FlowSymbols, env \in ReentryCloseEnvs : ClosePosition(symbol, env)

ReentrySpec == LiveInit /\ [][ReentryNext]_vars

(* ------------------------ calls that only skip ------------------------ *)
SkipSymbols == {"AAA", "BBB", "CCC"}

SkipBuy(symbol, sl) == Signal(symbol, "BUY", None, sl, None, None, None, 50, None)

\* A BUY of AAA with the answers that lead to each return of execute_signal:
\* the listing fails; no price, or a price of 0; a stop at the entry price; no
\* equity to size with; no buying power, or too little; an order filled at
\* once, free or held by its legs.  BUYs of the others that fill, and a CLOSE.
SkipCalls ==
    {[signal |-> SkipBuy("AAA", None), env |-> e] :
        e \in {Env(FALSE, None, None, "raise", "ok", FALSE),
               Env(TRUE, None, None, "raise", "ok", FALSE),
               Env(TRUE, Some(0), None, "raise", "ok", FALSE),
               Env(TRUE, Some(5000), Some(Account(Some(0), Some(10000000))), "raise", "ok", FALSE),
               Env(TRUE, Some(5000), Some(Account(Some(10000000), None)), "raise", "ok", FALSE),
               Env(TRUE, Some(5000), Some(Account(Some(10000000), Some(50000))), "raise", "ok",
                   FALSE),
               Env(TRUE, Some(5000), FullAccount, "filled", "ok", TRUE)}}
    \cup {[signal |-> SkipBuy(s, None),
           env |-> Env(TRUE, Some(5000), FullAccount, "filled", "ok", FALSE)] : s \in SkipSymbols}
    \cup {[signal |-> SkipBuy("AAA", Some(5000)),
           env |-> Env(TRUE, Some(5000), FullAccount, "filled", "ok", FALSE)],
          [signal |-> Signal("AAA", "CLOSE", None, None, None, None, None, 0, None),
           env |-> Env(TRUE, None, None, "raise", "ok", FALSE)]}

SkipInit ==
    /\ execution_halt_cooldown_seconds = TickSeconds
    /\ dry_run = FALSE
    /\ trading_client = "alpaca"
    /\ MAX_POSITION_SIZE = DefaultMaxPositionSize
    /\ InitProgram

SkipNext ==
    \/ Tick
    \/ \E crash \in BOOLEAN : execute_signals(1, crash)
    \/ \E c \in SkipCalls : ExecuteSignal(c.signal, c.env, MaxOrders)
    \/ \E env \in {Env(TRUE, None, None, "raise", "ok", FALSE)} : ClosePosition("AAA", env)
    \/ \E symbol \in SkipSymbols : BrokerExit(symbol)

SkipSpec == SkipInit /\ [][SkipNext]_vars

(* ------------------------- the decision loop -------------------------- *)
\* One call of should_exit: the error counts it leaves, and what is noted of it.
EvalExit(position, crash, frame) ==
    LET r == should_exit(position, crash, frame, _exit_error_counts)
        kind == IF r.raised THEN "raised"
                ELSE IF r.via = "data_error" THEN (IF r.value THEN "forced" ELSE "failed")
                ELSE "ok"
        symbol == position.symbol
    IN  /\ _exit_error_counts' = r.counts
        /\ exit_eval' = [position |-> position, crash |-> crash, frame |-> frame,
                         raised |-> r.raised, value |-> r.value, via |-> r.via,
                         before |-> IF symbol \in Symbols THEN exit_history[symbol]
                                    ELSE [kind |-> "none", at |-> 0]]
        /\ exit_history' = IF symbol \in Symbols
                           THEN [exit_history EXCEPT ![symbol] =
                                    [kind |-> kind, at |-> IF kind = "failed" THEN now ELSE 0]]
                           ELSE exit_history

\* update_daily_pnl answers nothing, or the equity and its return since the
\* start of the day, in basis points: flat, at the daily-loss limit, below it.
PnlState(equity, equity_return_pct) ==
    [equity |-> equity, equity_return_pct |-> equity_return_pct]
CycleSymbols == {"AAA", "BBB"}

\* allocate_positions(final_signals) takes no crash_mode: the call of
\* main.py:107 raises TypeError.
allocate_positions_accepts_crash_mode == FALSE

\* Mutant: the daily-loss limit does not keep a cycle from its entries.
CycleEntrySide_no_loss_gate(market_open, pnl_state, universe_empty, no_signals) ==
    IF ~market_open THEN "market_closed"
    ELSE IF universe_empty THEN "universe_empty"
    ELSE IF no_signals THEN "no_signals"
    ELSE IF ~allocate_positions_accepts_crash_mode THEN "cycle_failed"
    ELSE "entries_executed"

\* microcap_cycle down to the exit checks (main.py:47-153): how the entry side
\* ends, and whether the exit checks are reached.
CycleEntrySide(market_open, pnl_state, universe_empty, no_signals) ==
    LET trade_allowed ==
            ~(~IsNone(pnl_state)
                /\ daily_loss_exceeded(Some(Val(pnl_state).equity_return_pct)))
    IN  IF ~market_open THEN "market_closed"
        ELSE IF ~trade_allowed THEN "entries_blocked"
        ELSE IF universe_empty THEN "universe_empty"
        ELSE IF no_signals THEN "no_signals"
        ELSE IF ~allocate_positions_accepts_crash_mode THEN "cycle_failed"
        ELSE "entries_executed"

\* list_positions(): nothing without a client or when the broker raises.
list_positions(list_ok) ==
    IF trading_client = "none" \/ ~list_ok THEN {} ELSE OpenPositions

\* sync_entry_timestamps(open_symbols, default_timestamp).
sync_entry_timestamps(open_symbols, default_timestamp) ==
    [s \in Symbols |->
        IF s \notin open_symbols THEN None
        ELSE IF IsNone(entry_timestamps[s]) THEN Some(default_timestamp)
        ELSE entry_timestamps[s]]

CycleBegin(market_open, pnl_state, crash, universe_empty, no_signals, list_ok) ==
    /\ cycle.phase = "sleep"
    /\ batchLeft = 0
    /\ LET outcome == CycleEntrySide(market_open, pnl_state, universe_empty, no_signals)
           reached == outcome = "entries_blocked"
           open_positions == list_positions(list_ok)
       IN  /\ cycle' = [phase |-> IF reached THEN "exits" ELSE "done",
                        market_open |-> market_open, pnl_state |-> pnl_state,
                        crash |-> crash, outcome |-> outcome,
                        was_open |-> OpenPositions,
                        listed |-> IF reached THEN open_positions ELSE {},
                        todo |-> IF reached THEN open_positions ELSE {},
                        unpriced |-> {},
                        evaluated |-> {},
                        called |-> IF reached THEN {"list_positions", "sync_entry_timestamps"}
                                   ELSE {}]
           /\ entry_timestamps' = IF reached THEN sync_entry_timestamps(open_positions, now)
                                  ELSE entry_timestamps
    /\ ReportOnly("microcap_cycle")
    /\ UNCHANGED <<config, now, haltVars, _pending_entries, positions, orders, batchLeft,
                   crash_mode, entry_failure, exitVars, pure, cache>>

\* One pass of the loop of main.py:154-188 over a listed position: its prices
\* are parsed (a price that float() refuses skips the position), should_exit is
\* asked, and the position is closed if it says so.
ExitCheck(symbol, prices_ok, current_price, entry_price, frame, env) ==
    /\ cycle.phase = "exits"
    /\ symbol \in cycle.todo
    /\ LET payload == Position(symbol, {}, Some(current_price), Some(entry_price), None, None,
                               None, entry_timestamps[symbol], "")
           r == should_exit(payload, cycle.crash, frame, _exit_error_counts)
       IN  IF ~prices_ok
           THEN /\ cycle' = [cycle EXCEPT !.todo = @ \ {symbol}, !.unpriced = @ \cup {symbol}]
                /\ ReportOnly("exit_check")
                /\ UNCHANGED <<haltVars, _pending_entries, entry_timestamps, positions,
                               orders, exitVars>>
           ELSE /\ EvalExit(payload, cycle.crash, frame)
                /\ IF r.value
                   THEN LET o == close_position(symbol, "exit", env, HaltState)
                        IN  /\ SetHalt(o.halt)
                            /\ Report("close_position", o)
                            /\ Apply(o, env, 0)
                            /\ cycle' = [cycle EXCEPT !.todo = @ \ {symbol},
                                            !.evaluated = @ \cup {symbol},
                                            !.called = @ \cup {"should_exit", "close_position"}]
                   ELSE /\ ReportOnly("exit_check")
                        /\ cycle' = [cycle EXCEPT !.todo = @ \ {symbol},
                                        !.evaluated = @ \cup {symbol},
                                        !.called = @ \cup {"should_exit"}]
                        /\ UNCHANGED <<haltVars, _pending_entries, entry_timestamps,
                                       positions, orders>>
    /\ UNCHANGED <<config, now, batchLeft, crash_mode, entry_failure, pure, cache>>

\* A call of the exit side raises (save_state's write under
\* sync_entry_timestamps, update_daily_pnl after the checks): main.py:194-195
\* logs the exception, and the rest of the cycle is not run.
CycleRaise ==
    /\ cycle.phase = "exits"
    /\ cycle' = [cycle EXCEPT !.phase = "done", !.outcome = "cycle_failed", !.todo = {}]
    /\ ReportOnly("microcap_cycle")
    /\ UNCHANGED <<config, now, haltVars, _pending_entries, entry_timestamps, positions,
                   orders, batchLeft, crash_mode, entry_failure, exitVars, pure, cache>>

\* A loop whose handler lets the exception through: the failed cycle is
\* never slept out.
CycleEnd_unless_failed ==
    /\ \/ cycle.phase = "done"
       \/ cycle.phase = "exits" /\ cycle.todo = {}
    /\ cycle.outcome # "cycle_failed"
    /\ now + TickSeconds <= MaxTime
    /\ now' = now + TickSeconds
    /\ cycle' = [cycle EXCEPT !.phase = "sleep"]
    /\ ReportOnly("sleep")
    /\ entry_failure' = Remembered(entry_failure, now + TickSeconds)
    /\ UNCHANGED <<config, haltVars, _pending_entries, entry_timestamps, positions, orders,
                   batchLeft, crash_mode, exitVars, pure, cache>>

\* The cycle is over: it sleeps until the next one (main.py:190-200).
CycleEnd ==
    /\ \/ cycle.phase = "done"
       \/ cycle.phase = "exits" /\ cycle.todo = {}
    /\ now + TickSeconds <= MaxTime
    /\ now' = now + TickSeconds
    /\ cycle' = [cycle EXCEPT !.phase = "sleep"]
    /\ ReportOnly("sleep")
    /\ entry_failure' = Remembered(entry_failure, now + TickSeconds)
    /\ UNCHANGED <<config, haltVars, _pending_entries, entry_timestamps, positions, orders,
                   batchLeft, crash_mode, exitVars, pure, cache>>

\* The entry metadata the store holds for the positions of the account
\* (portfolio_state.py:75-98): BBB was entered from a swing signal, the others
\* from a signal as main.py builds it, with the bracket of the default table at
\* 50.00.  main.py never calls get_entry_metadata or sync_entry_metadata, and
\* close_position clears the metadata of a symbol only when its position is
\* closed, so the metadata of an open position stays what its entry noted.
SwingPositions == {"BBB"}
get_entry_metadata(symbol) ==
    IF symbol \in SwingPositions THEN SwingMetadata
    ELSE EntryMetadata(Signal(symbol, "BUY", None, None, None, None, None, 1, None), 5000,
                       stop_loss_price(5000, FALSE), take_profit_price(5000, FALSE))

\* The account holds positions when the process starts, some with an entry
\* timestamp in the store.
CycleInit ==
    /\ execution_halt_cooldown_seconds = 2 * TickSeconds
    /\ dry_run = FALSE
    /\ trading_client = "alpaca"
    /\ MAX_POSITION_SIZE = DefaultMaxPositionSize
    /\ now = StartTime
    /\ InitAdapter
    /\ positions \in [Symbols -> {"none", "open"}]
    /\ OpenPositions \subseteq CycleSymbols
    /\ entry_timestamps \in [Symbols -> {None, Some(StartTime)}]
    /\ \A s \in Symbols : positions[s] = "none" => IsNone(entry_timestamps[s])

\* Prices in cents around an entry of 50.00: flat, and through the default
\* take-profit.
CyclePrices == {5000, 5100}
CycleFrames == {Bars("ok", Some(5000), 10, FALSE)}
CycleCloseEnvs == {Env(TRUE, None, None, "raise", c, FALSE) : c \in {"ok", "benign"}}

\* One input for each way through the entry side: market closed; daily loss
\* reached, the positions listed or not; universe empty; no signal; signals.
CycleInput(market_open, pnl_state, crash, universe_empty, no_signals, list_ok) ==
    [market_open |-> market_open, pnl_state |-> pnl_state, crash |-> crash,
     universe_empty |-> universe_empty, no_signals |-> no_signals, list_ok |-> list_ok]
DailyLoss == Some(PnlState(10000000, 0 - max_daily_loss_pct))
CycleInputs ==
    {CycleInput(FALSE, None, FALSE, FALSE, FALSE, TRUE),
     CycleInput(TRUE, DailyLoss, FALSE, FALSE, FALSE, TRUE),
     CycleInput(TRUE, DailyLoss, TRUE, FALSE, FALSE, FALSE),
     CycleInput(TRUE, None, FALSE, TRUE, FALSE, TRUE),
     CycleInput(TRUE, Some(PnlState(10000000, 0)), FALSE, FALSE, TRUE, TRUE),
     CycleInput(TRUE, None, TRUE, FALSE, FALSE, TRUE)}

CycleNext ==
    \/ \E i \in CycleInputs :
            CycleBegin(i.market_open, i.pnl_state, i.crash, i.universe_empty, i.no_signals,
                       i.list_ok)
    \/ \E symbol \in CycleSymbols, prices_ok \in BOOLEAN, current_price \in CyclePrices :
         \E frame \in CycleFrames, env \in CycleCloseEnvs :
            ExitCheck(symbol, prices_ok, current_price, 5000, frame, env)
    \/ CycleRaise
    \/ CycleEnd
    \/ \E symbol \in CycleSymbols : BrokerExit(symbol)

CycleSpec == CycleInit /\ [][CycleNext]_vars

\* The loop of main.py:46 is `while True`: the sleep of the finally block
\* returns, and the next pass begins.
CycleStarts ==
    \E i \in CycleInputs :
        CycleBegin(i.market_open, i.pnl_state, i.crash, i.universe_empty, i.no_signals,
                   i.list_ok)
CycleFairSpec == CycleSpec /\ WF_vars(CycleEnd) /\ WF_vars(CycleStarts)

(* --------------------------- exit evaluations -------------------------- *)
\* The clock when the evaluations begin: a position entered at StartTime has
\* then been held for default_max_hold_minutes.
ExitStart == StartTime + 60 * default_max_hold_minutes

\* Entry timestamps: unknown, default_max_hold_minutes ago,
\* crash_max_hold_minutes ago, just now.
ExitTimestamps ==
    {None, Some(StartTime), Some(ExitStart - 60 * crash_max_hold_minutes), Some(ExitStart)}

\* Bars around an entry of 50.00: none since the entry that is higher; a high
\* of 52.00 or of 50.10 with an ATR of 0.10 (trailing stop 51.65 or 49.75).
QuietBars == Bars("ok", Some(5000), 10, FALSE)
ExitFrames ==
    {Bars("error", None, 0, FALSE), NoBars, QuietBars, Bars("ok", Some(5000), 10, TRUE),
     Bars("ok", Some(5200), 10, FALSE), Bars("ok", Some(5010), 10, FALSE)}

ExitCall(position, crash, frame) == [position |-> position, crash |-> crash, frame |-> frame]

\* Prices absent, None, 0 or 50.00, everything else as main.py passes it.
PriceCases ==
    {<<{}, None, Some(5000)>>, <<{}, Some(0), Some(5000)>>, <<{}, Some(5000), None>>,
     <<{}, Some(5000), Some(0)>>, <<{"current_price"}, None, Some(5000)>>,
     <<{"entry_price"}, Some(5000), None>>, <<{}, None, None>>}

PriceCalls ==
    {ExitCall(Position("AAA", c[1], c[2], c[3], None, None, None, ts, ""), crash, QuietBars) :
        c \in PriceCases, ts \in {None, Some(ExitStart)}, crash \in BOOLEAN}

\* Prices at and around the targets of both tables (-0.6%, -0.5%, +1.5%, +1.8%)
\* and of an override of 1%; overrides absent, valid (1%) or invalid (100%, 0).
TargetCalls ==
    {ExitCall(Position("AAA", {}, Some(cp), Some(5000), o[1], o[2], None, Some(ExitStart), ""),
              crash, QuietBars) :
        cp \in {4950, 4970, 4975, 5000, 5050, 5075, 5090},
        o \in {<<None, None>>, <<Some(100), Some(100)>>, <<Some(PctScale), Some(0)>>},
        crash \in BOOLEAN}

\* Hold times: the tables' or an override of 5 minutes (0 is no override).
HoldCalls ==
    {ExitCall(Position("AAA", {}, Some(5000), Some(5000), None, None, hold, ts, ""),
              crash, QuietBars) :
        hold \in {None, Some(5), Some(0)}, ts \in ExitTimestamps, crash \in BOOLEAN}

\* The bars: fetched or not, with or without a trigger, for a position of
\* known or unknown age, from intraday or daily data, with or without a symbol.
DataCalls ==
    {ExitCall(Position("AAA", {}, Some(5000), Some(5000), None, None, None, ts, ds),
              FALSE, frame) :
        ts \in {None, Some(ExitStart)}, ds \in {"", "daily"}, frame \in ExitFrames}
    \cup {ExitCall(Position("", {}, Some(5000), Some(5000), None, None, None, Some(ExitStart), ""),
                   FALSE, QuietBars)}

ExitCalls == PriceCalls \cup TargetCalls \cup HoldCalls \cup DataCalls

ShouldExit(position, crash, frame) ==
    /\ EvalExit(position, crash, frame)
    /\ ReportOnly("should_exit")
    /\ UNCHANGED <<config, now, haltVars, _pending_entries, entry_timestamps, positions, orders,
                   batchLeft, crash_mode, entry_failure, cycle, pure, cache>>

ExitWait ==
    /\ now + PollSeconds <= ExitStart + MaxPolls * PollSeconds
    /\ now' = now + PollSeconds
    /\ NoReport
    /\ UNCHANGED <<config, haltVars, _pending_entries, entry_timestamps, positions, orders,
                   batchLeft, crash_mode, entry_failure, loopVars>>

ExitInit ==
    /\ execution_halt_cooldown_seconds = 2 * TickSeconds
    /\ dry_run = FALSE
    /\ trading_client = "alpaca"
    /\ MAX_POSITION_SIZE = DefaultMaxPositionSize
    /\ now = ExitStart
    /\ InitAdapter
    /\ entry_timestamps = [s \in Symbols |-> None]
    /\ positions = [s \in Symbols |-> "none"]

ExitNext ==
    \/ \E c \in ExitCalls : ShouldExit(c.position, c.crash, c.frame)
    \/ ExitWait

ExitSpec == ExitInit /\ [][ExitNext]_vars

(* --------------------------- pure functions --------------------------- *)
\* Prices of 50.00, 49.00 and 0; equity of 100,000.00; 1% risk; a notional
\* cap of 10,000.00.
SizerPrices == {Finite(5000), Finite(4900), Finite(0), Inf, NaN}
SizerEquities == {None, Some(Finite(0)), Some(Finite(10000000)), Some(Inf), Some(NaN)}
SizerRiskPcts == {Finite(Frac(1, 100)), Finite(Frac(0, 1)), Inf, NaN}
SizerNotionals == {Finite(Frac(1000000, 1)), Finite(Frac(0, 1)), Inf, NegInf, NaN}
SizerMinQtys == {1, 300}

SizePosition(entry_price, stop_price, equity, max_risk_pct, max_notional, min_qty) ==
    /\ pure.fn = ""
    /\ LET r == size_position_float(entry_price, stop_price, equity, max_risk_pct,
                                    max_notional, min_qty)
       IN  pure' = [fn |-> "size_position", entry_price |-> entry_price,
                    stop_price |-> stop_price, equity |-> equity,
                    max_risk_pct |-> max_risk_pct, max_notional |-> max_notional,
                    min_qty |-> min_qty, raised |-> r.raised, value |-> r.value]
    /\ ReportOnly("size_position")
    /\ UNCHANGED <<config, now, haltVars, _pending_entries, entry_timestamps, positions, orders,
                   batchLeft, crash_mode, entry_failure, exitVars, cycle, cache>>

\* Open positions around both caps; allocations around both notional caps
\* (3,333.33 and 2,666.67); returns around the daily-loss limit of 3%.
OpenCounts == {0, 2, 3, 4, 5}
AllocationAmounts == {100000, 266666, 266667, 333333, 333334}
OpenEquities == {None, Some(10000000)}
EquityReturns == {None, Some(0), Some(-299), Some(-300), Some(-400)}

CanOpenPosition(current_positions, allocation_amount, crash, equity, equity_return_pct) ==
    /\ pure.fn = ""
    /\ pure' = [fn |-> "can_open_position", current_positions |-> current_positions,
                allocation_amount |-> allocation_amount, crash |-> crash, equity |-> equity,
                equity_return_pct |-> equity_return_pct, raised |-> "",
                value |-> can_open_position(current_positions, allocation_amount, crash,
                                            equity, equity_return_pct)]
    /\ ReportOnly("can_open_position")
    /\ UNCHANGED <<config, now, haltVars, _pending_entries, entry_timestamps, positions, orders,
                   batchLeft, crash_mode, entry_failure, exitVars, cycle, cache>>

\* MAX_POSITION_SIZE: the default, 0, or 5,000.00; no percent cap, 1% or 10%;
\* equity absent, 0 or 100,000.00.
PositionSizes == {DefaultMaxPositionSize, Frac(0, 1), Frac(500000, 1)}
PctCaps == {0, 100, 1000}
NotionalEquities == {None, Some(0), Some(10000000)}

MaxNotional(equity, crash, position_size, pct_cap) ==
    /\ pure.fn = ""
    /\ pure' = [fn |-> "max_position_notional", equity |-> equity, crash |-> crash,
                position_size |-> position_size, pct_cap |-> pct_cap, raised |-> "",
                value |-> MaxPositionNotional(equity, crash, position_size, pct_cap)]
    /\ ReportOnly("max_position_notional")
    /\ UNCHANGED <<config, now, haltVars, _pending_entries, entry_timestamps, positions, orders,
                   batchLeft, crash_mode, entry_failure, exitVars, cycle, cache>>

\* The caller goes on.
PureReturn ==
    /\ pure.fn # ""
    /\ pure' = NoCall
    /\ NoReport
    /\ UNCHANGED <<config, now, haltVars, _pending_entries, entry_timestamps, positions, orders,
                   batchLeft, crash_mode, entry_failure, exitVars, cycle, cache>>

PureInit ==
    /\ execution_halt_cooldown_seconds = 2 * TickSeconds
    /\ dry_run = FALSE
    /\ trading_client = "alpaca"
    /\ MAX_POSITION_SIZE = DefaultMaxPositionSize
    /\ InitProgram

PureNext ==
    \/ \E entry_price \in SizerPrices, stop_price \in SizerPrices, equity \in SizerEquities,
          max_risk_pct \in SizerRiskPcts, max_notional \in SizerNotionals,
          min_qty \in SizerMinQtys :
            SizePosition(entry_price, stop_price, equity, max_risk_pct, max_notional, min_qty)
    \/ \E current_positions \in OpenCounts, allocation_amount \in AllocationAmounts,
          crash \in BOOLEAN, equity \in OpenEquities, equity_return_pct \in EquityReturns :
            CanOpenPosition(current_positions, allocation_amount, crash, equity,
                            equity_return_pct)
    \/ \E equity \in NotionalEquities, crash \in BOOLEAN, position_size \in PositionSizes,
          pct_cap \in PctCaps :
            MaxNotional(equity, crash, position_size, pct_cap)
    \/ PureReturn

PureSpec == PureInit /\ [][PureNext]_vars

(* ----------------------------- allocation ----------------------------- *)
\* allocation.py:9 reads DAILY_BUDGET_USD as config.py does: DAILY_BUDGET.
\* vol_ratio in hundredths: the two thresholds of the sizing.
VolRatioHigh == 150
VolRatioLow == 70

AllocSymbols == {"AAA", "BBB"}

\* One entry of final_signals together with what price_router.get_price
\* answers when the loop asks for it: a price in cents, or None when it raises.
AllocCall(symbol, type, vol_ratio, price) ==
    [symbol |-> symbol, type |-> type, vol_ratio |-> vol_ratio, price |-> price]

\* The loop's variables; notional keeps shares * price of the entry that
\* allocations holds for a symbol.
AllocState(budget_remaining, allocations, notional, stopped) ==
    [budget_remaining |-> budget_remaining, allocations |-> allocations,
     notional |-> notional, stopped |-> stopped]

NoAllocations ==
    AllocState(DAILY_BUDGET, [s \in AllocSymbols |-> None], [s \in AllocSymbols |-> None], FALSE)

\* Mutant: a quiet symbol (vol_ratio below 0.7) is given 1.3 times the base.
AllocationSize_boosted(signal) ==
    LET base_allocation == Frac(DAILY_BUDGET, 3)
        by_vol == IF signal.vol_ratio > VolRatioHigh
                  THEN Frac(base_allocation.n, base_allocation.d * 2)
                  ELSE IF signal.vol_ratio < VolRatioLow
                  THEN Frac(base_allocation.n * 13, base_allocation.d * 10)
                  ELSE base_allocation
    IN  IF signal.type = "reversal" THEN Frac(by_vol.n * 3, by_vol.d * 5) ELSE by_vol

\* allocation.py:31-38: a third of the budget, halved for vol_ratio above 1.5,
\* min(base, base * 1.3) below 0.7, times 0.6 for a reversal.
AllocationSize(signal) ==
    LET base_allocation == Frac(DAILY_BUDGET, 3)
        by_vol == IF signal.vol_ratio > VolRatioHigh
                  THEN Frac(base_allocation.n, base_allocation.d * 2)
                  ELSE IF signal.vol_ratio < VolRatioLow
                  THEN FracMin(base_allocation,
                               Frac(base_allocation.n * 13, base_allocation.d * 10))
                  ELSE base_allocation
    IN  IF signal.type = "reversal" THEN Frac(by_vol.n * 3, by_vol.d * 5) ELSE by_vol

\* allocation.py:20-64: one turn of the loop.
AllocateSignal(st, signal) ==
    IF IsNone(signal.price) THEN st
    ELSE LET price == Val(signal.price)
             size == FracMin(AllocationSize(signal), Frac(st.budget_remaining, 1))
             shares == IF price > 0 THEN size.n \div (size.d * price) ELSE 0
             notional == shares * price
         IN  IF shares <= 0 THEN st
             ELSE IF notional > st.budget_remaining THEN st
             ELSE AllocState(st.budget_remaining - notional,
                             [st.allocations EXCEPT ![signal.symbol] = Some(shares)],
                             [st.notional EXCEPT ![signal.symbol] = Some(notional)],
                             st.budget_remaining - notional <= 0)

RECURSIVE AllocateFrom(_, _, _)
AllocateFrom(st, final_signals, i) ==
    IF i > Len(final_signals) \/ st.stopped THEN st
    ELSE AllocateFrom(AllocateSignal(st, final_signals[i]), final_signals, i + 1)

\* allocation.py:12-65.
allocate_positions(final_signals) ==
    IF final_signals = <<>> THEN NoAllocations
    ELSE AllocateFrom(NoAllocations, final_signals, 1)

\* The longest list of signals.
MaxSignals == 4

\* Prices per share: one cent and 1,500.00; the router raises; 0.
AllocPrices == {Some(1), Some(150000)}
AllocNoPrices == {None, Some(0)}
AllocTypes == {"momentum", "reversal"}
AllocVolRatios == {50, 100, 200}

\* Plain momentum signals of both symbols at both prices and of one symbol
\* without a usable price, and every type and vol_ratio at one cent.
AllocCalls ==
    {AllocCall(s, "momentum", 100, p) : s \in AllocSymbols, p \in AllocPrices}
        \cup {AllocCall("BBB", "momentum", 100, p) : p \in AllocNoPrices}
        \cup {AllocCall("AAA", t, v, Some(1)) : t \in AllocTypes, v \in AllocVolRatios}

AllocatePositions(final_signals) ==
    /\ pure.fn = ""
    /\ pure' = [fn |-> "allocate_positions", final_signals |-> final_signals, raised |-> "",
                value |-> allocate_positions(final_signals)]
    /\ ReportOnly("allocate_positions")
    /\ UNCHANGED <<config, now, haltVars, _pending_entries, entry_timestamps, positions, orders,
                   batchLeft, crash_mode, entry_failure, exitVars, cycle, cache>>

AllocationNext ==
    \/ /\ pure.fn = ""
       /\ \E n \in 0..MaxSignals : \E final_signals \in [1..n -> AllocCalls] :
              AllocatePositions(final_signals)
    \/ PureReturn

AllocationSpec == PureInit /\ [][AllocationNext]_vars

(* -------------------------------- cache ------------------------------- *)
\* TTLCache.__init__(self, default_ttl) declares no max_size parameter
\* (cache.py:14): a construction that passes one raises TypeError.
TTLCache_accepts_max_size == FALSE
CacheReach == 2 * TickSeconds

\* TTLCache(default_ttl = ..., max_size = ...), or without max_size.
NewTTLCache(default_ttl, max_size) ==
    /\ ~cache.built /\ cache.raised = ""
    /\ cache' = IF ~IsNone(max_size) /\ ~TTLCache_accepts_max_size
                THEN [NoCache EXCEPT !.raised = "TypeError", !.max_size = max_size]
                ELSE [NoCache EXCEPT !.built = TRUE, !.max_size = max_size,
                                     !.default_ttl = Max(default_ttl, 0)]
    /\ ReportOnly("TTLCache")
    /\ UNCHANGED <<config, now, haltVars, _pending_entries, entry_timestamps, positions, orders,
                   batchLeft, crash_mode, entry_failure, exitVars, cycle, pure>>

_expired(expires_at) == expires_at <= now

\* cache.set(key, value, ttl): a ttl of 0 or less removes the key.
CacheSet(key, ttl) ==
    /\ cache.built
    /\ LET ttl_value == IF IsNone(ttl) THEN cache.default_ttl ELSE Max(Val(ttl), 0)
       IN  cache' = [cache EXCEPT !._data[key] = IF ttl_value <= 0 THEN None
                                                 ELSE Some(now + ttl_value),
                                  !.got = ""]
    /\ ReportOnly("TTLCache.set")
    /\ UNCHANGED <<config, now, haltVars, _pending_entries, entry_timestamps, positions, orders,
                   batchLeft, crash_mode, entry_failure, exitVars, cycle, pure>>

\* cache.get(key): an expired entry is removed and the default returned.
CacheGet(key) ==
    /\ cache.built
    /\ LET entry == cache._data[key]
       IN  cache' = IF IsNone(entry) THEN [cache EXCEPT !.got = "default"]
                    ELSE IF _expired(Val(entry))
                         THEN [cache EXCEPT !._data[key] = None, !.got = "default"]
                    ELSE [cache EXCEPT !.got = "value"]
    /\ ReportOnly("TTLCache.get")
    /\ UNCHANGED <<config, now, haltVars, _pending_entries, entry_timestamps, positions, orders,
                   batchLeft, crash_mode, entry_failure, exitVars, cycle, pure>>

CacheDelete(key) ==
    /\ cache.built
    /\ cache' = [cache EXCEPT !._data[key] = None, !.got = ""]
    /\ ReportOnly("TTLCache.delete")
    /\ UNCHANGED <<config, now, haltVars, _pending_entries, entry_timestamps, positions, orders,
                   batchLeft, crash_mode, entry_failure, exitVars, cycle, pure>>

CacheClear ==
    /\ cache.built
    /\ cache' = [cache EXCEPT !._data = [k \in CacheKeys |-> None], !.got = ""]
    /\ ReportOnly("TTLCache.clear")
    /\ UNCHANGED <<config, now, haltVars, _pending_entries, entry_timestamps, positions, orders,
                   batchLeft, crash_mode, entry_failure, exitVars, cycle, pure>>

\* cache.cleanup(): every expired entry is removed.
CacheCleanup ==
    /\ cache.built
    /\ cache' = [cache EXCEPT !._data = [k \in CacheKeys |->
                                            IF ~IsNone(@[k]) /\ Val(@[k]) <= now THEN None
                                            ELSE @[k]],
                              !.got = ""]
    /\ ReportOnly("TTLCache.cleanup")
    /\ UNCHANGED <<config, now, haltVars, _pending_entries, entry_timestamps, positions, orders,
                   batchLeft, crash_mode, entry_failure, exitVars, cycle, pure>>

\* Time passes between two calls.
CacheWait ==
    /\ now + TickSeconds <= MaxTime
    /\ now' = now + TickSeconds
    /\ NoReport
    /\ UNCHANGED <<config, haltVars, _pending_entries, entry_timestamps, positions, orders,
                   batchLeft, crash_mode, entry_failure, loopVars>>

\* TTLs drawn: the default, 0 (which removes), one and two ticks.
CacheTtls == {None, Some(0), Some(TickSeconds), Some(CacheReach)}

CacheNext ==
    \/ \E max_size \in {None, Some(2)} : NewTTLCache(TickSeconds, max_size)
    \/ \E key \in CacheKeys, ttl \in CacheTtls : CacheSet(key, ttl)
    \/ \E key \in CacheKeys : CacheGet(key)
    \/ \E key \in CacheKeys : CacheDelete(key)
    \/ CacheClear
    \/ CacheCleanup
    \/ CacheWait

CacheSpec == PureInit /\ [][CacheNext]_vars

(* ---------------------------- signal router --------------------------- *)
\* Probabilities, momentum, regime and sentiment scores and slopes are in
\* units of 0.0001, volume and volatility ratios in units of 0.01, signal
\* scores in units of 0.000001.
MaxUniverse == 4
ml_trend_threshold == 2000
ml_reversal_threshold == 2600
regime_gate_min_score == 0
intraday_stale_seconds == 900
use_sentiment == TRUE
MOMENTUM_TOP_K == 10
_MAX_SIGNALS == 5
CrashSignalCap == 3
_MIN_TREND_SCORE == 3500
_MIN_DIP_SENTIMENT == 6000

\* momentum.py:16 and technicals.py:11 declare no crash_mode parameter: the
\* calls of signal_router.py:102, 238 and 248 pass it and raise TypeError.
compute_momentum_scores_accepts_crash_mode == FALSE
passes_entry_filter_accepts_crash_mode == FALSE

\* What the collaborators report of one symbol in this cycle: the breakout
\* detector's score, the classifier's probability and volume ratio, the
\* momentum score, the daily regime score, the intraday bars and what the
\* technical functions make of them, the sentiment, and the daily bars.
Quote(orb, prob, vol_ratio, momentum, regime, bars, technicals, sentiment_raw, daily) ==
    [orb |-> orb, prob |-> prob, vol_ratio |-> vol_ratio, momentum |-> momentum,
     regime |-> regime, bars |-> bars, technicals |-> technicals,
     sentiment_raw |-> sentiment_raw, daily |-> daily]
Technicals(entry_filter, short_slope, mid_slope, volatility_ratio, reversal_score) ==
    [entry_filter |-> entry_filter, short_slope |-> short_slope, mid_slope |-> mid_slope,
     volatility_ratio |-> volatility_ratio, reversal_score |-> reversal_score]
Daily(last_close, sma20, sma50, rsi, trend_score) ==
    [last_close |-> last_close, sma20 |-> sma20, sma50 |-> sma50, rsi |-> rsi,
     trend_score |-> trend_score]

\* A signal dict: the keys the router and its callers read.  score is absent
\* from the dip-buy and reversal dicts.
RoutedSignal(symbol, type, score, reason) ==
    [symbol |-> symbol, type |-> type, score |-> score, reason |-> reason]

\* The context main.py passes (pnl_penalty only), or one that carries the
\* health of the intraday data.
Context(intraday_data_fresh, intraday_data_age, pnl_penalty) ==
    [intraday_data_fresh |-> intraday_data_fresh, intraday_data_age |-> intraday_data_age,
     pnl_penalty |-> pnl_penalty]

_intraday_health(context) ==
    IF IsNone(context) THEN TRUE
    ELSE IF ~IsNone(Val(context).intraday_data_fresh) THEN Val(Val(context).intraday_data_fresh)
    ELSE IF ~IsNone(Val(context).intraday_data_age)
         THEN Val(Val(context).intraday_data_age) <= intraday_stale_seconds
    ELSE TRUE

\* strategy.sentiment_engine.get_symbol_sentiment, mapped from [-1, 1] to
\* [0, 1] by its callers.
get_symbol_sentiment(quote) == quote.sentiment_raw
Sentiment01(quote) == (get_symbol_sentiment(quote) + PctScale) \div 2

\* One pass of the loop of generate_swing_signals over a symbol: the signal
\* it appends, if any.
SwingSignal(symbol, quote, sentiment_lookup) ==
    IF IsNone(quote.daily) THEN None
    ELSE LET d == Val(quote.daily)
             sentiment == IF sentiment_lookup THEN Sentiment01(quote) ELSE 0
             trend_ok == /\ d.last_close > d.sma20
                         /\ d.sma20 >= d.sma50
                         /\ d.trend_score >= _MIN_TREND_SCORE
             dip_ok == /\ d.last_close * 100 < d.sma20 * 99
                       /\ d.rsi < 40
                       /\ sentiment >= _MIN_DIP_SENTIMENT
             score == IF trend_ok THEN 450000 + 35 * d.trend_score + 15 * sentiment
                      ELSE 400000 + 35 * sentiment + Min(20 * d.trend_score, 150000)
         IN  IF d.last_close <= 0 \/ d.sma20 <= 0 \/ d.sma50 <= 0 THEN None
             ELSE IF ~trend_ok /\ ~dip_ok THEN None
             ELSE Some(RoutedSignal(symbol, "swing", Some(Min(score, 950000)),
                              IF trend_ok THEN "swing_trend" ELSE "swing_dip"))

RECURSIVE SwingScan(_, _, _, _, _, _)
SwingScan(symbols, i, signals, daily_bars_map, quotes, sentiment_lookup) ==
    IF i > Len(symbols) \/ Len(signals) >= _MAX_SIGNALS THEN signals
    ELSE LET symbol == symbols[i]
             found == IF symbol \in daily_bars_map
                      THEN SwingSignal(symbol, quotes[symbol], sentiment_lookup)
                      ELSE None
         IN  SwingScan(symbols, i + 1,
                       IF IsNone(found) THEN signals ELSE Append(signals, Val(found)),
                       daily_bars_map, quotes, sentiment_lookup)

generate_swing_signals(symbols, daily_bars_map, quotes, sentiment_lookup) ==
    SwingScan(symbols, 1, <<>>, daily_bars_map, quotes, sentiment_lookup)

\* The breakout signals in scan order: none in crash mode or outside the
\* morning session.
RECURSIVE OrbScan(_, _, _)
OrbScan(universe, i, quotes) ==
    IF i > Len(universe) THEN <<>>
    ELSE LET symbol == universe[i]
             rest == OrbScan(universe, i + 1, quotes)
         IN  IF IsNone(quotes[symbol].orb) THEN rest
             ELSE <<RoutedSignal(symbol, "orb", quotes[symbol].orb, "5m ORB breakout long")>> \o rest

find_orb_setups(universe, crash, in_session, quotes) ==
    IF crash \/ ~in_session THEN <<>> ELSE OrbScan(universe, 1, quotes)

RegimeScore(quote) == IF IsNone(quote.regime) THEN 0 ELSE Val(quote.regime)

\* The symbols that compute_momentum_scores ranks before symbol: those with
\* a higher score, and those with the same score scanned earlier.
MomentumRanked(universe, quotes) == {s \in 1..Len(universe) : ~IsNone(quotes[universe[s]].momentum)}
MomentumBefore(universe, quotes, i) ==
    {j \in MomentumRanked(universe, quotes) :
        \/ Val(quotes[universe[j]].momentum) > Val(quotes[universe[i]].momentum)
        \/ Val(quotes[universe[j]].momentum) = Val(quotes[universe[i]].momentum) /\ j < i}
RankComponent(universe, quotes, i) ==
    LET kept == Min(Cardinality(MomentumRanked(universe, quotes)), MOMENTUM_TOP_K)
        rank_idx == Cardinality(MomentumBefore(universe, quotes, i))
    IN  IF i \notin MomentumRanked(universe, quotes) \/ rank_idx >= kept THEN 0
        ELSE PctScale - ((PctScale * rank_idx) \div Max(kept, 1))

\* The body of the loop of route_signals for one prediction (lines 161-379):
\* what it decides for the symbol.
Hypothesis(kind, final_score, score_threshold, momentum_override, filter_called) ==
    [kind |-> kind, final_score |-> final_score, score_threshold |-> score_threshold,
     momentum_override |-> momentum_override, filter_called |-> filter_called]
NoHypothesis == Hypothesis("none", 0, 0, FALSE, FALSE)

\* The conditions of lines 164-270 and the branch of lines 272-379 they select.
Decide(quote, rank_component, crash, pnl_penalty) ==
    LET prob == Val(quote.prob)
        t == quote.technicals
        momentum_score == IF IsNone(quote.momentum) THEN 0 ELSE Val(quote.momentum)
        vol_ratio == IF quote.vol_ratio = 0 THEN 100 ELSE quote.vol_ratio
        ml_pass == prob >= ml_trend_threshold
        regime_score == RegimeScore(quote)
        vol_ok == vol_ratio > 20
        reverse_prob_cutoff == Max(ml_reversal_threshold,
                                   IF crash THEN 3000 ELSE ml_reversal_threshold)
        reversal_allowed ==
            /\ 0 - 1000 <= momentum_score /\ momentum_score <= 1000
            /\ t.volatility_ratio > 105
            /\ prob >= reverse_prob_cutoff
            /\ t.reversal_score # 0
            /\ (regime_score >= 0 - 3500 \/ crash)
        filter_called == ml_pass \/ (momentum_score > 200 /\ vol_ratio > 130)
        momentum_base ==
            /\ ml_pass /\ t.entry_filter /\ vol_ok /\ t.short_slope > 0
            /\ t.mid_slope > 0 - 50
            /\ (regime_score >= 0 - 2000 \/ crash)
        momentum_override ==
            /\ ~ml_pass /\ momentum_score > 200 /\ vol_ratio > 130 /\ t.entry_filter
            /\ t.short_slope > 0 /\ t.mid_slope > 0
            /\ (regime_score >= 0 \/ crash)
        score_threshold == 320000 - 5 * regime_score
        raw_score_base == 45 * rank_component + 25 * prob + 15 * momentum_score
                          + 5 * regime_score
        sentiment == IF use_sentiment /\ raw_score_base + 150000 > score_threshold
                     THEN Sentiment01(quote) ELSE 0
        final_score == raw_score_base + 15 * sentiment - pnl_penalty
        momentum_signal == (momentum_base /\ final_score > score_threshold) \/ momentum_override
        dip_buy_ok ==
            /\ t.short_slope < 0 - 300 /\ vol_ratio > 110 /\ prob > ml_reversal_threshold
            /\ (regime_score >= 0 - 3500 \/ crash)
    IN  IF ~ml_pass /\ momentum_score < 200 /\ vol_ratio < 110 THEN NoHypothesis
        ELSE IF ~crash /\ regime_score < regime_gate_min_score THEN NoHypothesis
        ELSE IF quote.bars # "ok" THEN NoHypothesis
        ELSE IF momentum_signal
             THEN Hypothesis("momentum", final_score, score_threshold, momentum_override,
                             filter_called)
        ELSE IF dip_buy_ok THEN Hypothesis("dip_buy", 0, score_threshold, FALSE, filter_called)
        ELSE IF reversal_allowed
             THEN Hypothesis("reversal", 0, score_threshold, FALSE, filter_called)
        ELSE Hypothesis("none", 0, score_threshold, FALSE, filter_called)

\* The loop body as it runs: the call of passes_entry_filter raises.
EvaluateSymbol(quote, rank_component, crash, pnl_penalty) ==
    LET decided == Decide(quote, rank_component, crash, pnl_penalty)
    IN  IF decided.filter_called /\ ~passes_entry_filter_accepts_crash_mode
        THEN Hypothesis("TypeError", 0, 0, FALSE, TRUE)
        ELSE decided

\* The signal dict appended for a decision.
HypothesisSignal(symbol, h, crash) ==
    IF h.kind = "momentum"
    THEN RoutedSignal(symbol, "momentum", Some(h.final_score),
                IF h.momentum_override THEN "momentum_override"
                ELSE IF crash THEN "crash expansion" ELSE "trend")
    ELSE RoutedSignal(symbol, "reversal", None, IF h.kind = "dip_buy" THEN "dip buy" ELSE "reversal")

\* The loop over ml_preds (lines 156-382): the predictions are the universe's
\* symbols that have one, in scan order.
RECURSIVE PredScan(_, _, _, _, _, _, _)
PredScan(universe, i, signals, skip_symbols, quotes, crash, pnl_penalty) ==
    IF i > Len(universe) THEN [raised |-> "", value |-> signals]
    ELSE LET symbol == universe[i]
             h == EvaluateSymbol(quotes[symbol], RankComponent(universe, quotes, i), crash,
                                 pnl_penalty)
         IN  IF IsNone(quotes[symbol].prob) \/ symbol \in skip_symbols
             THEN PredScan(universe, i + 1, signals, skip_symbols, quotes, crash, pnl_penalty)
             ELSE IF h.kind = "TypeError" THEN [raised |-> "TypeError", value |-> <<>>]
             ELSE IF h.kind = "none" /\ quotes[symbol].bars # "ok"
             THEN PredScan(universe, i + 1, signals, skip_symbols, quotes, crash, pnl_penalty)
             ELSE LET appended == IF h.kind = "none" THEN signals
                                  ELSE Append(signals, HypothesisSignal(symbol, h, crash))
                  IN  IF crash /\ Len(appended) >= CrashSignalCap
                      THEN [raised |-> "", value |-> appended]
                      ELSE PredScan(universe, i + 1, appended, skip_symbols, quotes, crash,
                                    pnl_penalty)

\* list.sort(key = score or 0.0, reverse = True): stable, so signals of equal
\* key keep their order.
SortKey(signal) == IF IsNone(signal.score) THEN 0 ELSE Val(signal.score)
RECURSIVE InsertByScore(_, _)
InsertByScore(sorted, signal) ==
    IF sorted = <<>> THEN <<signal>>
    ELSE IF SortKey(Head(sorted)) >= SortKey(signal)
         THEN <<Head(sorted)>> \o InsertByScore(Tail(sorted), signal)
         ELSE <<signal>> \o sorted
RECURSIVE SortByScore(_, _)
SortByScore(signals, i) ==
    IF i = 0 THEN <<>> ELSE InsertByScore(SortByScore(signals, i - 1), signals[i])

route_signals(universe, crash, context, in_session, quotes) ==
    LET pnl_penalty == IF IsNone(context) THEN 0 ELSE Val(context).pnl_penalty
        orb_signals == find_orb_setups(universe, crash, in_session, quotes)
        skip_symbols == {orb_signals[k].symbol : k \in 1..Len(orb_signals)}
        symbols_for_daily ==
            {universe[k] : k \in {j \in 1..Len(universe) : ~IsNone(quotes[universe[j]].prob)}}
                \cup skip_symbols
        filtered_orb_signals ==
            SelectSeq(orb_signals,
                      LAMBDA sig : RegimeScore(quotes[sig.symbol]) >= regime_gate_min_score)
        scanned == PredScan(universe, 1, filtered_orb_signals, skip_symbols, quotes, crash,
                            pnl_penalty)
        signals == SortByScore(scanned.value, Len(scanned.value))
        all_symbols == {universe[k] : k \in 1..Len(universe)}
    IN  IF ~_intraday_health(context)
        THEN [raised |-> "",
              value |-> generate_swing_signals(universe, all_symbols, quotes, use_sentiment)]
        ELSE IF ~compute_momentum_scores_accepts_crash_mode
             THEN [raised |-> "TypeError", value |-> <<>>]
        ELSE IF scanned.raised # "" THEN scanned
        ELSE IF signals # <<>> THEN [raised |-> "", value |-> signals]
        ELSE [raised |-> "",
              value |-> generate_swing_signals(universe,
                            IF symbols_for_daily # {} THEN symbols_for_daily ELSE all_symbols,
                            quotes, use_sentiment)]

\* The quotes drawn: nothing to trade; an uptrend the classifier likes; strong
\* raw momentum the classifier does not like, with poor sentiment; a sharp dip
\* on volume; a flat symbol turning; an opening-range breakout; a daily uptrend
\* without intraday bars.
QuietTechnicals == Technicals(FALSE, 0, 0, 100, 0)
QuoteQuiet == Quote(None, None, 100, None, None, "empty", QuietTechnicals, 0, None)
QuoteTrend ==
    Quote(None, Some(6000), 150, Some(500), Some(6000), "ok", Technicals(TRUE, 20, 10, 100, 0),
          0, Some(Daily(110, 100, 90, 60, 10000)))
QuoteOverride ==
    Quote(None, Some(1000), 150, Some(300), Some(0), "ok", Technicals(TRUE, 20, 10, 100, 0),
          0 - 10000, Some(Daily(90, 100, 100, 30, 0)))
QuoteDip ==
    Quote(None, Some(3000), 120, Some(0 - 500), Some(0), "ok",
          Technicals(FALSE, 0 - 400, 0 - 100, 100, 0), 6000, Some(Daily(90, 100, 100, 30, 0)))
QuoteReversal ==
    Quote(None, Some(3000), 100, Some(0), None, "ok", Technicals(FALSE, 0, 0, 110, 1), 0, None)
QuoteOrb ==
    Quote(Some(700000), Some(6000), 150, Some(400), Some(2000), "ok",
          Technicals(TRUE, 20, 10, 100, 0), 0, Some(Daily(110, 100, 90, 60, 4000)))
QuoteSwing ==
    Quote(None, None, 100, None, None, "empty", QuietTechnicals, 0,
          Some(Daily(110, 100, 90, 60, 6000)))
Quotes ==
    {QuoteQuiet, QuoteTrend, QuoteOverride, QuoteDip, QuoteReversal, QuoteOrb, QuoteSwing}

\* The calls drawn: main.py's context (no health attribute) in and out of the
\* morning session and in crash mode, with the penalty of a losing day; no
\* context; data flagged stale; data older than intraday_stale_seconds in
\* crash mode.
RouteUniverse == [i \in 1..MaxUniverse |-> i]
RouteCall(crash, context, in_session) ==
    [crash |-> crash, context |-> context, in_session |-> in_session]
RouteCalls ==
    {RouteCall(FALSE, Some(Context(None, None, 0)), TRUE),
     RouteCall(FALSE, Some(Context(None, None, 50000)), FALSE),
     RouteCall(TRUE, Some(Context(None, None, 0)), TRUE),
     RouteCall(FALSE, None, TRUE),
     RouteCall(FALSE, Some(Context(Some(FALSE), None, 0)), TRUE),
     RouteCall(TRUE, Some(Context(None, Some(intraday_stale_seconds + 1), 0)), TRUE)}

RouteSignals(call, quotes) ==
    /\ pure.fn = ""
    /\ LET r == route_signals(RouteUniverse, call.crash, call.context, call.in_session, quotes)
       IN  pure' = [fn |-> "route_signals", crash |-> call.crash,
                    intraday_ok |-> _intraday_health(call.context),
                    pnl_penalty |-> IF IsNone(call.context) THEN 0
                                    ELSE Val(call.context).pnl_penalty,
                    in_session |-> call.in_session, quotes |-> quotes,
                    raised |-> r.raised, value |-> r.value]
    /\ ReportOnly("route_signals")
    /\ UNCHANGED <<config, now, haltVars, _pending_entries, entry_timestamps, positions, orders,
                   batchLeft, crash_mode, entry_failure, exitVars, cycle, cache>>

RouteNext ==
    \/ \E call \in RouteCalls, quotes \in [1..MaxUniverse -> Quotes] : RouteSignals(call, quotes)
    \/ PureReturn

RouteSpec == PureInit /\ [][RouteNext]_vars

(* ============================== claims ================================ *)
BuyStep == lastOp' = "execute_signal" /\ result'.action = "BUY"
CloseStep == lastOp' \in {"execute_signal", "close_position"} /\ result'.action = "CLOSE"
HaltDeadlinePassed == _halt_until # 0 /\ now >= _halt_until
EntryCalls == {"get_all_positions", "get_account", "submit_order"}

FailureReason(call) ==
    IF call = "get_all_positions" THEN "alpaca_list_positions_failed"
    ELSE IF call = "get_account" THEN "alpaca_get_account_failed"
    ELSE IF call = "submit_order" THEN "alpaca_submit_failed"
    ELSE "alpaca_close_failed"

\* C1: whenever execute_signal handles a BUY signal in a state where the halt
\* flag is set and its deadline has not passed, it calls nothing at the broker
\* (no submit_order) and returns a skip whose reason is the halt reason.
C1_HaltBlocksEntry ==
    [][(BuyStep /\ _halt_new_entries /\ ~HaltDeadlinePassed)
        => /\ result'.skipped /\ ~result'.submitted
           /\ result'.reason = _halt_reason
           /\ calls' = {}
           /\ orders' = orders /\ _pending_entries' = _pending_entries]_vars

\* C1 witness: a BUY was just skipped with the halt reason while a halt with a
\* cooldown was running.
C1_Witness ==
    /\ lastOp = "execute_signal" /\ result.action = "BUY"
    /\ entered_halted /\ _halt_new_entries /\ now < _halt_until
    /\ failed = "none" /\ result.skipped /\ result.reason = _halt_reason

\* C2 (as stated): a BUY during which get_all_positions, get_account or
\* submit_order raises sets the halt flag with the reason naming that call and
\* returns a skip with it, and every later BUY before that cooldown has elapsed
\* is skipped with that same reason.
C2_FailedEntryHalts ==
    (lastOp = "execute_signal" /\ result.action = "BUY" /\ failed # "none")
        => /\ failed \in EntryCalls
           /\ _halt_new_entries
           /\ _halt_reason = FailureReason(failed)
           /\ result.skipped /\ ~result.submitted
           /\ result.reason = FailureReason(failed)

C2_SameReasonUntilCooldown ==
    []C2_FailedEntryHalts
    /\ [][(BuyStep /\ ~IsNone(entry_failure))
            => /\ result'.skipped
               /\ result'.reason = Val(entry_failure).reason]_vars

\* C2 (amended): ... every later BUY before that cooldown has elapsed is skipped
\* with the halt reason then stored, which is that same reason unless a failed
\* close_position (its position listing or its close call) has replaced it.
C2_HaltReasonUntilCooldown ==
    []C2_FailedEntryHalts
    /\ [][(BuyStep /\ ~IsNone(entry_failure))
            => /\ result'.skipped /\ calls' = {}
               /\ result'.reason = _halt_reason
               /\ \/ _halt_reason = Val(entry_failure).reason
                  \/ _halt_reason \in {"alpaca_close_failed",
                                       "alpaca_list_positions_failed"}]_vars

\* C2 witness: a BUY skipped with the reason of an earlier failed entry, at a
\* later time and before that entry's cooldown has run out.
C2_Witness ==
    /\ lastOp = "execute_signal" /\ result.action = "BUY" /\ failed = "none"
    /\ ~IsNone(entry_failure)
    /\ result.skipped /\ result.reason = Val(entry_failure).reason
    /\ result.reason = "alpaca_submit_failed"
    /\ now > StartTime /\ now < Val(entry_failure).until

\* C3 (as stated): for every cooldown of 0 or more, a call of execute_signals,
\* or of execute_signal with a BUY, that begins halted after the cooldown has
\* elapsed since the halt was set clears the halt (flag off, reason empty), and
\* the BUY is not skipped for the halt.
HaltCleared ==
    \/ lastOp' = "execute_signals" /\ ~_halt_new_entries' /\ _halt_reason' = ""
    \/ BuyStep /\ failed' = "none" /\ ~_halt_new_entries' /\ _halt_reason' = ""
              /\ result'.reason # _halt_reason
    \/ BuyStep /\ failed' # "none" /\ calls' # {}

C3_HaltClearsAfterCooldown ==
    [][((lastOp' = "execute_signals" \/ BuyStep)
            /\ _halt_new_entries /\ now >= _halt_until)
        => HaltCleared]_vars

\* C3 (amended): the same for every cooldown greater than 0.
C3_HaltClearsAfterPositiveCooldown ==
    [][((lastOp' = "execute_signals" \/ BuyStep)
            /\ execution_halt_cooldown_seconds > 0
            /\ _halt_new_entries /\ now >= _halt_until)
        => HaltCleared]_vars

\* C3 witness: a BUY that began halted, found the halt cleared and went on to
\* submit an order.
C3_Witness ==
    /\ lastOp = "execute_signal" /\ result.action = "BUY"
    /\ execution_halt_cooldown_seconds > 0
    /\ entered_halted /\ ~_halt_new_entries /\ _halt_reason = ""
    /\ result.submitted

\* C4: with a trading client and dry_run off, a close (close_position, or
\* execute_signal with SELL or CLOSE) of a symbol whose listed position is open
\* and not fully held reaches the broker's close call, halted or not.
C4_HaltNeverBlocksExit ==
    [][(CloseStep /\ trading_client # "none" /\ ~dry_run
            /\ positions[result'.symbol] = "open"
            /\ failed' # "get_all_positions")
        => "close_position" \in calls']_vars

\* C4 witness: a close accepted by the broker in a call that began halted.
C4_Witness ==
    /\ result.action = "CLOSE" /\ result.submitted
    /\ entered_halted /\ _halt_new_entries
    /\ "close_position" \in calls
\* C5: no entry order is submitted that takes the number of open positions,
\* counting the symbols with an entry order submitted and not yet filled, above
\* the position cap of the batch's mode (max_positions, or the crash cap).
PositionCap(crash) == IF crash THEN crash_max_positions ELSE MAX_POSITIONS

C5_PositionCap ==
    [][(BuyStep /\ result'.submitted)
        => Cardinality(Exposure') <= PositionCap(crash_mode)]_vars

\* C6: execute_signal submits no entry order for a symbol that has an open
\* position or an outstanding entry order when the call begins.
C6_NoSecondEntry ==
    [][(BuyStep /\ result'.submitted) => result'.symbol \notin Exposure]_vars
BuyReturned == lastOp = "execute_signal" /\ result.action = "BUY"
Submitted == BuyReturned /\ "submit_order" \in calls
BracketResolved == BuyReturned /\ ~IsNone(locals.stop_loss)
Sized == BuyReturned /\ ~IsNone(locals.qty)
GoodBracket ==
    /\ 0 < Val(locals.stop_loss)
    /\ Val(locals.stop_loss) < Val(locals.entry_price)
    /\ Val(locals.entry_price) < Val(locals.take_profit)

RiskBound ==
    IF IsNone(locals.equity) THEN 0
    ELSE (Val(locals.equity) * Val(locals.max_risk_pct).n)
            \div (Val(locals.max_risk_pct).d
                    * Abs(Val(locals.entry_price) - Val(locals.stop_loss)))
NotionalBound ==
    Val(locals.max_notional).n \div (Val(locals.max_notional).d * Val(locals.entry_price))

\* C8 (as stated): every submitted quantity q has
\* 1 <= q <= floor(min(equity * max_risk_pct / |entry - stop|, max_notional / entry))
\* and q <= requested_qty when requested_qty is positive.
C8_QtyWithinBothCaps ==
    Submitted
        => /\ 1 <= Val(locals.qty)
           /\ Val(locals.qty) <= Min(RiskBound, NotionalBound)
           /\ Val(locals.requested_qty) > 0 => Val(locals.qty) <= Val(locals.requested_qty)

\* C8 (amended): the same, the notional term applying only when max_notional
\* is positive.
C8_QtyWithinCaps ==
    Submitted
        => /\ 1 <= Val(locals.qty)
           /\ Val(locals.qty) <= RiskBound
           /\ Val(locals.max_notional).n > 0 => Val(locals.qty) <= NotionalBound
           /\ Val(locals.requested_qty) > 0 => Val(locals.qty) <= Val(locals.requested_qty)

\* C8 witness: requested 100, risk-sized 40 (equity 10 000.00, risk 0.5%, entry
\* 50.00, stop 48.75), 40 submitted.
C8_Witness ==
    /\ Submitted /\ result.submitted
    /\ locals.equity = Some(1000000) /\ locals.entry_price = Some(5000)
    /\ locals.stop_loss = Some(4875)
    /\ locals.requested_qty = Some(100) /\ locals.sized_qty = Some(40)
    /\ locals.qty = Some(40)

Notional == Val(locals.entry_price) * Val(locals.qty)

\* C9 (as stated): every submitted order has entry_price * qty <= buying power
\* of the account fetched in the call; a sized order above the buying power is
\* skipped with reason buying_power_insufficient and submit_order is not called.
C9_InsufficientBuyingPower ==
    /\ Submitted => (~IsNone(locals.buying_power) /\ Notional <= Val(locals.buying_power))
    /\ (Sized /\ Val(locals.qty) > 0 /\ ~IsNone(locals.buying_power)
            /\ Notional > Val(locals.buying_power))
          => /\ result.skipped /\ result.reason = "buying_power_insufficient"
             /\ "submit_order" \notin calls

\* C9 (amended): ... is skipped, with reason buying_power_insufficient when the
\* buying power is positive and buying_power_unavailable when it is zero,
\* negative or absent, and submit_order is not called.
C9_BuyingPowerCovers ==
    /\ Submitted => (~IsNone(locals.buying_power) /\ Notional <= Val(locals.buying_power))
    /\ (Sized /\ Val(locals.qty) > 0
            /\ (IsNone(locals.buying_power) \/ Notional > Val(locals.buying_power)))
          => /\ result.skipped /\ ~result.submitted
             /\ "submit_order" \notin calls
             /\ result.reason =
                    IF ~IsNone(locals.buying_power) /\ Val(locals.buying_power) > 0
                    THEN "buying_power_insufficient" ELSE "buying_power_unavailable"

\* C9 witness: buying power 500.00, entry 50.00, 40 shares (2000.00): skipped
\* with buying_power_insufficient.
C9_Witness ==
    /\ Sized /\ locals.qty = Some(40) /\ locals.entry_price = Some(5000)
    /\ locals.buying_power = Some(50000)
    /\ result.skipped /\ result.reason = "buying_power_insufficient"
    /\ "submit_order" \notin calls
PendingEntryOf(id) ==
    CHOOSE e \in {_pending_entries[i] : i \in DOMAIN _pending_entries} : e.order_id = id

\* The call has submitted an order that the broker's response leaves unfilled.
EntryLeftWorking ==
    /\ BuyStep /\ result'.submitted
    /\ orders'[Val(result'.order_id)].status \in WorkingStatuses
    /\ Val(result'.order_id) \notin PendingIds(_pending_entries)

\* C10: a PendingEntry is created, under its order id, exactly by an
\* execute_signal that submitted an entry order whose response reports it
\* unfilled; no two entries share an order id; a sweep removes an entry that is
\* older than 3600 seconds, and removes none but the expired, the filled and
\* the canceled, rejected or expired orders' entries; and under repeated sweeps
\* every PendingEntry is eventually removed.
C10_PendingEntryLifecycle ==
    /\ [][IF EntryLeftWorking
          THEN _pending_entries' =
                  Append(_pending_entries,
                         [order_id |-> Val(result'.order_id), symbol |-> result'.symbol,
                          submitted_at |-> now])
          ELSE PendingIds(_pending_entries') \subseteq PendingIds(_pending_entries)]_vars
    /\ [](\A i, j \in DOMAIN _pending_entries :
            _pending_entries[i].order_id = _pending_entries[j].order_id => i = j)
    /\ [][\A id \in PendingIds(_pending_entries) :
            /\ (lastOp' = "reconcile_pending_entries"
                    /\ now - PendingEntryOf(id).submitted_at > _pending_entry_ttl_seconds)
                  => id \notin PendingIds(_pending_entries')
            /\ id \notin PendingIds(_pending_entries')
                  => /\ lastOp' = "reconcile_pending_entries"
                     /\ \/ now - PendingEntryOf(id).submitted_at > _pending_entry_ttl_seconds
                        \/ orders[id].status \in {"filled", "partially_filled"}
                        \/ orders[id].status \in TerminalStatuses]_vars
    /\ \A id \in 1..MaxOrders :
            (id \in PendingIds(_pending_entries)) ~> (id \notin PendingIds(_pending_entries))

\* C10 witness: a sweep has just dropped the entry of an order that the broker
\* still holds as new, more than 3600 seconds after it was submitted.
C10_Witness ==
    /\ lastOp = "reconcile_pending_entries"
    /\ _pending_entries = <<>>
    /\ \E id \in OrderIds : orders[id].status = "new"
    /\ now > StartTime + _pending_entry_ttl_seconds

\* The step on which a cycle ends and the loop goes to sleep.
CycleEnds == cycle.phase # "sleep" /\ cycle'.phase = "sleep"

\* C11: every cycle of the decision loop (with the market open) runs the
\* reconciliation sweep reconcile_pending_entries, so that a fill reported by
\* the broker is recorded no later than the end of the next cycle.
C11_SweepEachCycle ==
    [][(CycleEnds /\ cycle.market_open)
        => "reconcile_pending_entries" \in cycle.called]_vars

\* C12: in every cycle in which the market is open, every position that is
\* open throughout the cycle is evaluated by should_exit, however the entry
\* side of the cycle went (entries blocked or allowed, universe empty, no
\* signal, allocation or execution failed).
C12_ExitsEveryCycle ==
    [][(CycleEnds /\ cycle.market_open)
        => (cycle.was_open \cap OpenPositions) \subseteq cycle.evaluated]_vars

\* The call gets as far as the broker's close call.
CloseReaches(symbol, env) ==
    /\ trading_client # "none" /\ ~dry_run
    /\ env.list_ok /\ positions[symbol] = "open"

SkipOnlyReasons ==
    {"price_unavailable", "invalid_entry_price", "invalid_bracket", "risk_sizing_blocked",
     "buying_power_unavailable", "buying_power_insufficient", "max_positions_reached",
     "position_exists", "no_position", "position_held"}

\* A BUY of execute_signal, or a close, returns a skip with one of these reasons.
SkipOnlyStep ==
    /\ \/ BuyStep /\ result'.reason \in SkipOnlyReasons \ {"no_position", "position_held"}
       \/ CloseStep /\ result'.reason \in {"no_position", "position_held"}
    /\ result'.skipped

\* C14 (as stated): a BUY skipped for a missing or invalid price, an invalid
\* bracket, sizing below minimum, unavailable or insufficient buying power,
\* max_positions_reached or position_exists, and a close skipped for
\* no_position or position_held, leaves the halt flag, reason and deadline, the
\* pending entries and the stored entry timestamps unchanged.
C14_SkipChangesNothing ==
    [][SkipOnlyStep
        => /\ haltVars' = haltVars
           /\ _pending_entries' = _pending_entries
           /\ entry_timestamps' = entry_timestamps]_vars

\* An execute_signal that began with a halt whose cooldown had run out has
\* cleared it.
ExpiredHaltCleared ==
    /\ lastOp' = "execute_signal"
    /\ _halt_new_entries /\ HaltDeadlinePassed
    /\ ~_halt_new_entries' /\ _halt_reason' = "" /\ _halt_until' = 0

\* C14 (amended): ... sets no halt and leaves the pending entries and the
\* stored entry timestamps unchanged; the halt flag, reason and deadline are
\* unchanged too, except that execute_signal, before it looks at the signal,
\* clears a halt whose cooldown has elapsed.
C14_SkipSetsNoHalt ==
    [][SkipOnlyStep
        => /\ haltVars' = haltVars \/ ExpiredHaltCleared
           /\ _pending_entries' = _pending_entries
           /\ entry_timestamps' = entry_timestamps]_vars

\* C14 witness: a BUY that began under a halt whose cooldown had run out was
\* skipped for an invalid bracket; the halt is cleared, the entry timestamp of
\* an open position is still stored.
C14_Witness ==
    /\ lastOp = "execute_signal" /\ result.action = "BUY"
    /\ result.skipped /\ result.reason = "invalid_bracket"
    /\ entered_halted /\ ~_halt_new_entries
    /\ \E s \in SkipSymbols : ~IsNone(entry_timestamps[s])


\* A call of should_exit whose bar data could not be fetched.
ExitErrorStep ==
    /\ lastOp' = "should_exit"
    /\ now' = now
    /\ exit_eval'.via = "data_error"

\* C15: on a data-fetch error should_exit returns true exactly when the
\* previous evaluation of the same symbol also failed, without forcing an
\* exit, no more than 600 seconds earlier: a failure after a successful
\* evaluation, a single failure, and a failure after a forced exit return
\* false. (A previous evaluation that raised is left aside.)
C15_ForcedOnSecondConsecutiveFailure ==
    [][LET before == exit_history[exit_eval'.position.symbol]
       IN  (ExitErrorStep /\ before.kind # "raised") =>
            (exit_eval'.value <=>
                (before.kind = "failed" /\ now - before.at <= _EXIT_ERROR_RESET_SECONDS))]_vars

\* The last call of should_exit, as the caller sees it: the prices it was
\* given, the targets and hold time that apply, and what the bars show.
ExitPrice == PositionGet(exit_eval.position, "current_price")
ExitEntry == PositionGet(exit_eval.position, "entry_price")
ExitPriced ==
    /\ ~IsNone(ExitPrice) /\ Val(ExitPrice) # 0
    /\ ~IsNone(ExitEntry) /\ Val(ExitEntry) # 0
ExitAgeKnown == ~IsNone(exit_eval.position.entry_timestamp)
ExitBarsUsed ==
    /\ exit_eval.position.symbol # ""
    /\ exit_eval.position.data_source # "daily"
    /\ exit_eval.frame.status = "ok"
ExitTrailBreach ==
    LET trailing_stop ==
            _trailing_stop_from_bars(exit_eval.frame, Val(ExitEntry), exit_eval.crash)
    IN  ~IsNone(trailing_stop) /\ Val(ExitPrice) * PctScale <= Val(trailing_stop)
ExitFilterTriggers == exit_eval.frame.filter
ExitBarsTrigger == ExitBarsUsed /\ (ExitTrailBreach \/ ExitFilterTriggers)

\* Take-profit and stop-loss percent in force, in basis points: the
\* position's own when it lies strictly between 0 and 100%, else the table's.
ExitTakeProfit ==
    LET own == exit_eval.position.take_profit_pct
    IN  IF ~IsNone(own) /\ Val(own) > 0 /\ Val(own) < 10000 THEN Val(own)
        ELSE IF exit_eval.crash THEN 150 ELSE 180
ExitStopLoss ==
    LET own == exit_eval.position.stop_loss_pct
    IN  IF ~IsNone(own) /\ Val(own) > 0 /\ Val(own) < 10000 THEN Val(own)
        ELSE IF exit_eval.crash THEN 50 ELSE 60
ExitMaxHold ==
    LET own == exit_eval.position.max_hold_minutes
    IN  IF ~IsNone(own) /\ Val(own) > 0 THEN Val(own)
        ELSE IF exit_eval.crash THEN 60 ELSE 90
\* gain >= take-profit or gain <= -stop-loss, for a positive entry price.
ExitTargetHit ==
    \/ Val(ExitPrice) * 10000 >= Val(ExitEntry) * (10000 + ExitTakeProfit)
    \/ Val(ExitPrice) * 10000 <= Val(ExitEntry) * (10000 - ExitStopLoss)
ExitHeldTooLong ==
    ExitAgeKnown /\ now - Val(exit_eval.position.entry_timestamp) >= 60 * ExitMaxHold

\* C16: for a position of unknown entry_timestamp and valid prices,
\* should_exit returns true when take-profit or stop-loss is hit and when the
\* bars show a trailing-stop breach or the exit filter triggers, and returns
\* true for no other reason than these or a forced exit on a data error.
C16_UnknownAgeSkipsOnlyTimeStop ==
    (lastOp = "should_exit" /\ ExitPriced /\ ~ExitAgeKnown) =>
        /\ ~exit_eval.raised
        /\ ExitTargetHit => exit_eval.value
        /\ ExitBarsTrigger => exit_eval.value
        /\ exit_eval.value =>
            (ExitTargetHit \/ ExitBarsTrigger \/ exit_eval.frame.status = "error")

\* The price given to should_exit, or the entry price, is absent, None or 0.
ExitPriceFalsy ==
    \/ "current_price" \in exit_eval.position.absent
    \/ "entry_price" \in exit_eval.position.absent
    \/ exit_eval.position.current_price \in {None, Some(0)}
    \/ exit_eval.position.entry_price \in {None, Some(0)}
\* C17: a call of should_exit whose current_price or entry_price is absent,
\* None or 0 returns true, whatever the other fields and crash_mode.
C17_FalsyPriceExits ==
    (lastOp = "should_exit" /\ ExitPriceFalsy) => (~exit_eval.raised /\ exit_eval.value)

\* Nothing asks for an exit: no target is hit, the position is not held too
\* long, and the bars show neither a trailing-stop breach nor a filter trigger.
ExitNothingTriggers ==
    /\ ~ExitTargetHit
    /\ ~ExitHeldTooLong
    /\ ~ExitTrailBreach
    /\ ~ExitFilterTriggers

\* C18 as stated: with valid prices should_exit returns true when take-profit
\* or stop-loss is hit and, the entry time known, when the hold time is used
\* up, percents and hold time being the position's own valid override or else
\* the table's; it returns false when nothing triggers.
C18_TargetsElseFalse ==
    (lastOp = "should_exit" /\ ExitPriced) =>
        /\ ExitTargetHit => exit_eval.value
        /\ ExitHeldTooLong => exit_eval.value
        /\ ExitNothingTriggers => ~exit_eval.value

\* C18: with valid prices should_exit returns true when take-profit or
\* stop-loss is hit and, the entry time known, when the hold time is used up,
\* percents and hold time being the position's own valid override or else the
\* table's; it returns false when nothing triggers and fetching the bars
\* raises no error.
C18_TargetsElseFalseUnlessDataError ==
    (lastOp = "should_exit" /\ ExitPriced) =>
        /\ ~exit_eval.raised
        /\ ExitTargetHit => exit_eval.value
        /\ ExitHeldTooLong => exit_eval.value
        /\ (ExitNothingTriggers /\ exit_eval.frame.status # "error") => ~exit_eval.value

\* A gain of 1% meets the position's own take-profit of 1%, not the table's.
C18_Witness ==
    /\ lastOp = "should_exit"
    /\ ExitPriced
    /\ exit_eval.position.take_profit_pct = Some(100)
    /\ Val(ExitPrice) = 5050 /\ Val(ExitEntry) = 5000
    /\ exit_eval.value

\* The last call of size_position: whether an argument makes it return 0,
\* and the quantity the two caps allow otherwise.
SizerCalled == pure.fn = "size_position"
SizerNonFinite ==
    \/ pure.entry_price.kind # "finite"
    \/ pure.stop_price.kind # "finite"
    \/ pure.max_notional.kind # "finite"
    \/ (~IsNone(pure.equity) /\ Val(pure.equity).kind # "finite")
    \/ pure.max_risk_pct.kind # "finite"
SizerRisk ==
    IF pure.entry_price.v >= pure.stop_price.v THEN pure.entry_price.v - pure.stop_price.v
    ELSE pure.stop_price.v - pure.entry_price.v
SizerZero ==
    \/ SizerNonFinite
    \/ IsNone(pure.equity)
    \/ Val(pure.equity).v <= 0
    \/ pure.max_risk_pct.v.n <= 0
    \/ SizerRisk <= 0
SizerByRisk ==
    (Val(pure.equity).v * pure.max_risk_pct.v.n) \div (pure.max_risk_pct.v.d * SizerRisk)
SizerByNotional ==
    IF pure.entry_price.v <= 0 \/ pure.max_notional.v.n <= 0 THEN SizerByRisk
    ELSE pure.max_notional.v.n \div (pure.max_notional.v.d * pure.entry_price.v)
SizerQty == IF SizerByRisk <= SizerByNotional THEN SizerByRisk ELSE SizerByNotional

\* C19: size_position returns 0 when equity is absent, <= 0 or non-finite,
\* max_risk_pct is <= 0 or non-finite, risk_per_share is <= 0, or entry, stop
\* or max_notional is non-finite; otherwise it returns the smaller of
\* floor(equity * max_risk_pct / risk_per_share) and floor(max_notional /
\* entry) (the first alone when entry <= 0 or max_notional <= 0), or 0 when
\* that is below min_qty.
C19_SizePosition ==
    SizerCalled =>
        /\ pure.raised = ""
        /\ pure.value = IF SizerZero THEN 0
                        ELSE IF SizerQty < pure.min_qty THEN 0
                        ELSE SizerQty

\* The last call of can_open_position: the daily loss is at or beyond the
\* limit of 3%; the cap on open positions; the allocation fits the notional cap.
OpenCalled == pure.fn = "can_open_position"
OpenLossBreach ==
    /\ ~IsNone(pure.equity_return_pct)
    /\ Val(pure.equity_return_pct) <= 0 - 300
OpenCap == IF pure.crash THEN 3 ELSE 5
OpenFits ==
    LET cap == max_position_notional(pure.equity, pure.crash)
    IN  pure.allocation_amount * cap.d <= cap.n

\* C20: can_open_position returns false when equity_return_pct is at or below
\* minus the daily-loss limit, and otherwise true exactly when
\* current_positions is below max_positions(crash_mode) and allocation_amount
\* is at most max_position_notional(equity, crash_mode): it denies at the cap,
\* at the lower crash cap, on a loss breach with no open position, and never
\* because equity_return_pct is absent.
C20_CanOpenPosition ==
    OpenCalled =>
        /\ pure.raised = ""
        /\ OpenLossBreach => ~pure.value
        /\ ~OpenLossBreach =>
            (pure.value <=> (pure.current_positions < OpenCap /\ OpenFits))
        /\ pure.current_positions = 5 => ~pure.value
        /\ (pure.crash /\ pure.current_positions >= 3) => ~pure.value

\* A return of exactly -3% denies an entry with no position open.
C20_Witness ==
    /\ OpenCalled
    /\ pure.equity_return_pct = Some(-300)
    /\ pure.current_positions = 0
    /\ pure.allocation_amount = 100000
    /\ ~pure.value

\* The last call of max_position_notional: the fixed cap of its mode as the
\* claim names it and as configured, and the percent-of-equity cap.
NotionalCalled == pure.fn = "max_position_notional"
NotionalFixedCap ==
    IF pure.crash THEN Frac(1000000 * 8, 10 * 3) ELSE pure.position_size
NotionalEquityKnown == ~IsNone(pure.equity) /\ Val(pure.equity) > 0
\* equity * max_position_pct in cents, the drawn equities being multiples of
\* 100.00.
NotionalEquityCap == Frac((Val(pure.equity) \div 10000) * pure.pct_cap, 1)
NotionalPctApplies == pure.pct_cap > 0 /\ NotionalEquityKnown
FracEq(a, b) == a.n * b.d = b.n * a.d

\* C21 as stated: max_position_notional is the fixed cap of the mode when no
\* percent cap is configured or equity is unknown, otherwise the smaller of
\* the fixed cap and equity * max_position_pct; it never exceeds the fixed cap.
C21_NotionalCap ==
    NotionalCalled =>
        /\ ~NotionalPctApplies => FracEq(pure.value, NotionalFixedCap)
        /\ NotionalPctApplies =>
            FracEq(pure.value, FracMin(NotionalFixedCap, NotionalEquityCap))
        /\ FracLeq(pure.value, NotionalFixedCap)

\* C21: with the fixed cap being MAX_POSITION_SIZE (by default
\* daily_budget / 3) in normal mode and 0.80 * daily_budget /
\* crash_max_positions in crash mode, max_position_notional is the fixed cap
\* when no percent cap is configured or equity is absent or not positive;
\* otherwise it is the smaller of a non-zero fixed cap and equity *
\* max_position_pct, and equity * max_position_pct alone when the fixed cap
\* is 0; it exceeds the fixed cap only when that is 0.
C21_NotionalCapUnlessZero ==
    NotionalCalled =>
        /\ ~NotionalPctApplies => FracEq(pure.value, NotionalFixedCap)
        /\ (NotionalPctApplies /\ NotionalFixedCap.n # 0) =>
            FracEq(pure.value, FracMin(NotionalFixedCap, NotionalEquityCap))
        /\ (NotionalPctApplies /\ NotionalFixedCap.n = 0) =>
            FracEq(pure.value, NotionalEquityCap)
        /\ NotionalFixedCap.n # 0 => FracLeq(pure.value, NotionalFixedCap)

\* A percent cap of 1% of 100,000.00 undercuts the default fixed cap.
C21_Witness ==
    /\ NotionalCalled
    /\ ~pure.crash
    /\ pure.position_size = DefaultMaxPositionSize
    /\ pure.pct_cap = 100
    /\ pure.equity = Some(10000000)
    /\ FracEq(pure.value, Frac(100000, 1))

\* What a step wrote to the trade log: a record of the skipped result (with a
\* reason or, for a dry run, the status dry_run), a record naming the reason
\* of the halt that was set or cleared, a record for the symbol of a pending
\* entry.
SkipLogged ==
    result'.skipped =>
        \E e \in trade_log' :
            /\ e.symbol = result'.symbol
            /\ e.action = result'.action
            /\ e.reason # "None" \/ e.status = "dry_run"
HaltSetLogged ==
    (~_halt_new_entries /\ _halt_new_entries') =>
        \E e \in trade_log' : e.reason = _halt_reason'
HaltClearLogged ==
    (_halt_new_entries /\ ~_halt_new_entries') =>
        \E e \in trade_log' : e.reason = _halt_reason
EntryLogged(payload) ==
    \E e \in trade_log' : e.symbol = payload.symbol /\ e.reason # "None"
SweepLogged ==
    \A unfetched \in SUBSET OrderIds :
        ReconcilePendingEntries(unfetched) =>
            \A i \in DOMAIN _pending_entries :
                LET payload == _pending_entries[i]
                IN  (entry_expired(payload.submitted_at) \/ payload.order_id \in unfetched)
                        => EntryLogged(payload)

\* C22: every step that returns a skipped result, sets the halt, clears the
\* halt, expires a pending entry or fails to look up its order writes a
\* record of it through log_trade, with the symbol, the action and a reason.
C22_NothingUnlogged ==
    [][SkipLogged /\ HaltSetLogged /\ HaltClearLogged /\ SweepLogged]_vars

\* A step of execute_signal or close_position with dry_run enabled; the result
\* of a dry run and its record in the trade log; a BUY that got as far as a
\* positive quantity the buying power covers.
DryStep == dry_run /\ lastOp' \in {"execute_signal", "close_position"}
DryResult ==
    /\ result'.skipped
    /\ result'.reason = "dry_run"
    /\ \E e \in trade_log' :
        e.status = "dry_run" /\ e.symbol = result'.symbol /\ e.action = result'.action
DryBuyReady ==
    /\ result'.action = "BUY"
    /\ ~IsNone(locals'.qty) /\ Val(locals'.qty) > 0
    /\ ~IsNone(locals'.buying_power) /\ Val(locals'.buying_power) > 0
    /\ Val(locals'.entry_price) * Val(locals'.qty) <= Val(locals'.buying_power)
DryCloseReady ==
    result'.action = "CLOSE" /\ result'.symbol # "" /\ trading_client # "none"

\* C23: with dry_run enabled, execute_signal and close_position call neither
\* submit_order nor the broker's close, submit nothing, and leave pending
\* entries, stored entry timestamps, positions and orders as they were; a BUY
\* that has passed every check and a close with a symbol and a client log the
\* intended action and return skipped with reason dry_run.
C23_DryRunSubmitsNothing ==
    [][DryStep =>
        /\ "submit_order" \notin calls'
        /\ "close_position" \notin calls'
        /\ ~result'.submitted
        /\ _pending_entries' = _pending_entries
        /\ entry_timestamps' = entry_timestamps
        /\ positions' = positions
        /\ orders' = orders
        /\ (DryBuyReady \/ DryCloseReady) => DryResult]_vars

\* A dry-run BUY that was sized and would have been submitted.
C23_Witness ==
    /\ dry_run
    /\ BuyReturned
    /\ Sized
    /\ result.skipped /\ result.reason = "dry_run"
    /\ calls = {"get_all_positions", "get_account"}


\* The clock values at which a cycle can begin and still be slept out.
CycleTimes == {StartTime + k * TickSeconds : k \in 0..(MaxTicks - 1)}
CycleFailed == cycle.phase = "done" /\ cycle.outcome = "cycle_failed"

\* C24: an exception raised inside a cycle (allocation, exit checks) never
\* ends the decision loop: the failed cycle is abandoned, the loop sleeps out
\* the interval, and the next cycle starts.
C24_FailedCycleGoesOn ==
    \A t \in CycleTimes :
        (CycleFailed /\ now = t) ~> (now = t + TickSeconds /\ cycle.phase # "sleep")

\* A failed cycle has been slept out.
C24_Witness ==
    cycle.phase = "sleep" /\ cycle.outcome = "cycle_failed" /\ now > StartTime


\* The router has been called; the signals it returned for a symbol.
RouteCalled == pure.fn = "route_signals"
RouteReturned == {k \in 1..Len(pure.value) : pure.raised = ""}
RouteSignalsOf(symbol) == {k \in RouteReturned : pure.value[k].symbol = symbol}

\* C25: in crash mode route_signals returns at most 3 signals and none of
\* them is a breakout signal, on every path through it, the swing fallback
\* included.
C25_CrashCap ==
    (RouteCalled /\ pure.crash /\ pure.raised = "")
        => /\ Len(pure.value) <= CrashSignalCap
           /\ \A k \in RouteReturned : pure.value[k].type # "orb"


\* What the conditions of the loop body select for a symbol of the universe
\* that has a prediction and is not claimed by the breakout detector.
RouteClaimed(symbol) ==
    ~pure.crash /\ pure.in_session /\ ~IsNone(pure.quotes[symbol].orb)
RouteDecided(symbol) ==
    Decide(pure.quotes[symbol], RankComponent(RouteUniverse, pure.quotes, symbol), pure.crash,
           pure.pnl_penalty)
RouteQualifies(symbol) ==
    /\ ~IsNone(pure.quotes[symbol].prob)
    /\ ~RouteClaimed(symbol)
    /\ RouteDecided(symbol).kind # "none"
RouteReason(symbol) ==
    LET h == RouteDecided(symbol)
    IN  IF h.kind = "dip_buy" THEN {"dip buy"}
        ELSE IF h.kind = "reversal" THEN {"reversal"}
        ELSE {"trend", "crash expansion", "momentum_override"}

\* C26: route_signals emits at most one signal per symbol; a symbol claimed
\* by the breakout detector gets no momentum, dip-buy or reversal signal; for
\* any other symbol exactly the first qualifying hypothesis in the order
\* momentum, dip-buy, reversal is emitted.
C26_OnePerSymbol ==
    (RouteCalled /\ pure.intraday_ok)
        => \A symbol \in 1..MaxUniverse :
            /\ Cardinality(RouteSignalsOf(symbol)) <= 1
            /\ RouteClaimed(symbol)
                => \A k \in RouteSignalsOf(symbol) : pure.value[k].type = "orb"
            /\ RouteQualifies(symbol)
                => \E k \in RouteSignalsOf(symbol) :
                      pure.value[k].reason \in RouteReason(symbol)


RouteDiscovery(signal) ==
    IF signal.type = "orb" THEN signal.symbol ELSE MaxUniverse + signal.symbol

\* C28: the list returned by route_signals is ordered by non-increasing
\* score on every path, and signals of equal score keep their discovery
\* order.
C28_SortedByScore ==
    (RouteCalled /\ pure.raised = "")
        => \A j, k \in RouteReturned :
              j < k => \/ SortKey(pure.value[j]) > SortKey(pure.value[k])
                       \/ /\ SortKey(pure.value[j]) = SortKey(pure.value[k])
                          /\ RouteDiscovery(pure.value[j]) < RouteDiscovery(pure.value[k])

CacheHeld(c) == {k \in CacheKeys : ~IsNone(c._data[k])}
CacheEarliest(c) ==
    {k \in CacheHeld(c) : \A other \in CacheHeld(c) : Val(c._data[k]) <= Val(c._data[other])}
CacheSetAdds(key) ==
    /\ lastOp' = "TTLCache.set"
    /\ key \notin CacheHeld(cache)
    /\ Cardinality(CacheHeld(cache)) >= Val(cache'.max_size)

\* C30: a TTLCache built with max_size never holds more than max_size
\* entries after any sequence of set calls; a set that would exceed the bound
\* evicts the entry of earliest expiry, and the new entry is retrievable.
C30_BoundedCache ==
    [][~IsNone(cache'.max_size)
        => /\ cache'.built
           /\ Cardinality(CacheHeld(cache')) <= Val(cache'.max_size)
           /\ \A key \in CacheKeys :
                (CacheSetAdds(key) /\ key \in CacheHeld(cache'))
                    => \E old \in CacheEarliest(cache) : old \notin CacheHeld(cache')]_vars

(* ------------------------------- C31 ---------------------------------- *)
\* The exit check of the running cycle has just asked should_exit about symbol.
ExitAsked(symbol) ==
    symbol \in cycle'.evaluated /\ symbol \notin cycle.evaluated

\* How should_exit returns for a position it takes for a daily one: from its
\* prices, its targets or its age, never from the intraday bars.
DailyExits == {"invalid_price", "target", "unknown_age", "time_stop", "daily"}

\* C31 as stated: the stop-loss percent, take-profit percent, maximum hold time
\* and data source noted for a position at its entry are what the decision loop
\* hands to should_exit for it in later cycles, so that a position entered from
\* a daily (swing) signal gets no intraday trailing-stop or technical-exit
\* check and is held up to its own max_hold_minutes.
C31_MetadataHandedToExit ==
    [][\A symbol \in CycleSymbols :
        ExitAsked(symbol) =>
            LET noted == get_entry_metadata(symbol)
                handed == exit_eval'.position
            IN  /\ handed.stop_loss_pct = noted.stop_loss_pct
                /\ handed.take_profit_pct = noted.take_profit_pct
                /\ handed.max_hold_minutes = noted.max_hold_minutes
                /\ handed.data_source = noted.data_source
                /\ noted.data_source = "daily" =>
                      /\ exit_eval'.via \in DailyExits
                      /\ exit_eval'.via = "time_stop" =>
                            now - Val(handed.entry_timestamp)
                                >= 60 * Val(noted.max_hold_minutes)]_vars

\* execute_signal has submitted the swing signal and noted its metadata.
SwingEntryNoted ==
    /\ lastOp = "execute_signal"
    /\ result.submitted
    /\ locals.entry_metadata = SwingMetadata

(* ------------------------------- C32 ---------------------------------- *)
\* The running cycle found the day's equity return at or below the limit.
DailyLossCycle ==
    /\ cycle.phase # "sleep"
    /\ cycle.market_open
    /\ ~IsNone(cycle.pnl_state)
    /\ Val(cycle.pnl_state).equity_return_pct <= 0 - max_daily_loss_pct

\* A BUY order has just been handed to the broker.
BuySubmitted ==
    /\ lastOp' = "execute_signal" /\ result'.action = "BUY"
    /\ "submit_order" \in calls'

\* The daily-loss cycle submits no BUY order.
NoBuyInLossCycle ==
    DailyLossCycle' => (cycle'.outcome # "entries_executed" /\ ~BuySubmitted)

BracketNoted ==
    /\ pure.fn = "execute_signal"
    /\ BracketResolved

\* A percent that execute_signal converts: inside the open interval (0, 1).
UsablePct(pct) == ~IsNone(pct) /\ 0 < Val(pct) /\ Val(pct) < PctScale

\* C33: execute_signal resolves each bracket leg on its own, from the explicit
\* price if the signal has one, else from the explicit percent converted to a
\* price, else from the crash-aware default table; an explicit price wins over
\* an explicit percent, and a percent outside (0, 1) falls through to the
\* default table and does not reject the signal.
C33_BracketLegs ==
    BracketNoted =>
        LET signal == pure.signal
            entry_price == Val(locals.entry_price)
            stop_loss == Val(locals.stop_loss)
            take_profit == Val(locals.take_profit)
        IN  /\ stop_loss =
                  IF ~IsNone(signal.stop_loss_price) THEN Val(signal.stop_loss_price)
                  ELSE IF UsablePct(signal.stop_loss_pct)
                  THEN RoundHalfEven(entry_price * (PctScale - Val(signal.stop_loss_pct)),
                                     PctScale)
                  ELSE stop_loss_price(entry_price, pure.crash)
            /\ take_profit =
                  IF ~IsNone(signal.take_profit_price) THEN Val(signal.take_profit_price)
                  ELSE IF UsablePct(signal.take_profit_pct)
                  THEN RoundHalfEven(entry_price * (PctScale + Val(signal.take_profit_pct)),
                                     PctScale)
                  ELSE take_profit_price(entry_price, pure.crash)
            /\ (IsNone(signal.stop_loss_price) /\ IsNone(signal.take_profit_price))
                  => result.reason # "invalid_bracket"

\* An order went out whose stop came from the explicit price although the
\* signal had a percent too, and whose target came from the table because the
\* signal's percent was 100%.
C33_Witness ==
    /\ BracketNoted
    /\ result.submitted
    /\ pure.signal.stop_loss_price = Some(4950)
    /\ pure.signal.stop_loss_pct = Some(250)
    /\ Val(locals.stop_loss) = 4950
    /\ IsNone(pure.signal.take_profit_price)
    /\ pure.signal.take_profit_pct = Some(PctScale)
    /\ Val(locals.take_profit) = take_profit_price(5000, pure.crash)

(* ------------------------------- C34 ---------------------------------- *)
\* The broker has just taken an order or a close for the symbol of the call.
BrokerAccepted ==
    /\ lastOp' \in {"execute_signal", "close_position"}
    /\ result'.symbol \in Symbols
    /\ positions'[result'.symbol] # positions[result'.symbol]

\* C34: a result with submitted = false means the broker received no order
\* from that call: for an order submit_order accepted execute_signal returns
\* no skip and sets no halt with alpaca_submit_failed (also when the write of
\* the entry timestamp or metadata fails afterwards), and close_position
\* reports no alpaca_close_failed for a close the broker accepted.
C34_SkipMeansNothingSent ==
    [][BrokerAccepted =>
        /\ result'.submitted /\ ~result'.skipped
        /\ result'.reason \notin {"alpaca_submit_failed", "alpaca_close_failed"}
        /\ ~(failed' # "none" /\ _halt_new_entries'
                /\ _halt_reason' \in {"alpaca_submit_failed", "alpaca_close_failed"})]_vars

(* ------------------------------- C35 ---------------------------------- *)
\* close_position has just succeeded for the symbol.
CloseSucceeded(symbol) ==
    /\ lastOp' = "close_position"
    /\ result'.symbol = symbol
    /\ result'.submitted

\* C35: after close_position succeeds for a symbol the store holds no entry
\* timestamp for it until a new entry order for it is filled: the close
\* leaves none, and a later reconciliation sweep that finds the PendingEntry
\* of the closed position filled does not write the old fill time back.
C35_ClosedStaysCleared ==
    [][\A symbol \in FlowSymbols :
        /\ CloseSucceeded(symbol) => IsNone(entry_timestamps'[symbol])
        /\ (lastOp' = "reconcile_pending_entries" /\ positions[symbol] = "none")
              => entry_timestamps'[symbol] = entry_timestamps[symbol]]_vars

(* ------------------------------- C36 ---------------------------------- *)
\* The cycle has just run sync_entry_timestamps.
SyncStep ==
    /\ cycle.phase = "sleep"
    /\ "sync_entry_timestamps" \in cycle'.called

FailedWhileHalted ==
    /\ lastOp' \in {"execute_signal", "close_position"}
    /\ _halt_new_entries
    /\ failed' \in {"get_all_positions", "get_account", "submit_order", "close_position"}
    /\ result'.reason # "position_unavailable"

\* The failure replaces the reason and starts the cooldown at the time of the
\* failure, and a BUY resumes when that cooldown is over and not before.
RestartsCooldown ==
    /\ FailedWhileHalted
          => /\ _halt_new_entries'
             /\ _halt_reason' = FailureReason(failed')
             /\ _halt_until' = now + execution_halt_cooldown_seconds
    /\ (BuyStep /\ _halt_new_entries /\ trading_client # "none")
          => IF now >= _halt_until THEN HaltCleared
             ELSE /\ calls' = {} /\ result'.skipped
                  /\ _halt_new_entries' /\ _halt_until' = _halt_until

\* C37 as stated: a broker failure that occurs while the engine is already
\* halted (a failed close, which the halt does not block) replaces the halt
\* reason and restarts the cooldown from that moment, so that new entries
\* resume one full cooldown after the most recent failure, not after the first.
C37_FailureRestartsCooldown ==
    [][RestartsCooldown]_vars

\* C37 (amended): the same where the configured cooldown is greater than 0.
C37_FailureRestartsPositiveCooldown ==
    [][execution_halt_cooldown_seconds > 0 => RestartsCooldown]_vars

\* A close has failed during the halt a failed entry had set earlier: the halt
\* now carries the close's reason and a later deadline than the entry's.
C37_Witness ==
    /\ lastOp = "close_position" /\ failed = "close_position"
    /\ entered_halted
    /\ execution_halt_cooldown_seconds > 0
    /\ ~IsNone(entry_failure)
    /\ Val(entry_failure).reason # "alpaca_close_failed"
    /\ Val(entry_failure).until < _halt_until
    /\ _halt_new_entries /\ _halt_reason = "alpaca_close_failed"
    /\ _halt_until = now + execution_halt_cooldown_seconds

(* ------------------------------- C38 ---------------------------------- *)
Allocated(value) == {s \in AllocSymbols : ~IsNone(value.allocations[s])}

RECURSIVE SumNotional(_, _)
SumNotional(value, symbols) ==
    IF symbols = {} THEN 0
    ELSE LET s == CHOOSE x \in symbols : TRUE
         IN  Val(value.notional[s]) + SumNotional(value, symbols \ {s})

\* C38: for any list of signals, the same symbol in more than one of them
\* included, the allocations allocate_positions returns have a summed notional
\* (shares * price at allocation time) of at most the daily budget, none of
\* them is above a third of the daily budget, and every share count is at
\* least 1.
C38_AllocationWithinBudget ==
    pure.fn = "allocate_positions"
        => /\ SumNotional(pure.value, Allocated(pure.value)) <= DAILY_BUDGET
           /\ \A s \in Allocated(pure.value) :
                  /\ Val(pure.value.notional[s]) * 3 <= DAILY_BUDGET
                  /\ Val(pure.value.allocations[s]) >= 1
                  /\ \E i \in 1..Len(pure.final_signals) :
                        /\ pure.final_signals[i].symbol = s
                        /\ pure.final_signals[i].price # None
                        /\ Val(pure.final_signals[i].price) > 0
                        /\ Val(pure.value.notional[s]) % Val(pure.final_signals[i].price) = 0
                        /\ Val(pure.value.notional[s]) \div Val(pure.final_signals[i].price)
                             = Val(pure.value.allocations[s])

\* Both symbols came twice, every signal was given shares, and the last one
\* took what was left of the budget.
C38_Witness ==
    /\ pure.fn = "allocate_positions"
    /\ Len(pure.final_signals) = 4
    /\ \A s \in AllocSymbols :
          Cardinality({i \in 1..4 : pure.final_signals[i].symbol = s}) = 2
    /\ \A i \in 1..4 : pure.final_signals[i].price = Some(1)
    /\ Allocated(pure.value) = AllocSymbols
    /\ pure.value.budget_remaining = 0
    /\ pure.value.stopped
====
